------------------------------ MODULE MCImageRegion ------------------------------
EXTENDS ImageRegion

Format(order, type, bytes) == [order |-> order, type |-> type, bytes |-> bytes]

\* Formats of one, two and four channels and of several bytes, two packed ones, and
\* two that the library does not list.
MCFormats ==
  {Format("CL_R", "CL_UNORM_INT8", 1), Format("CL_RG", "CL_HALF_FLOAT", 4),
   Format("CL_RGBA", "CL_UNSIGNED_INT8", 4), Format("CL_BGRA", "CL_UNORM_INT8", 4),
   Format("CL_RGB", "CL_UNORM_SHORT_565", 2), Format("CL_RGBx", "CL_UNORM_INT_101010", 4),
   Format("CL_sRGBA", "CL_UNORM_INT8", 4), Format("CL_DEPTH", "CL_FLOAT", 4)}

================================================================================
