------------------------------ MODULE MCInt64 ------------------------------
EXTENDS Int64
Halving4 == <<2, 1>>
AllOps == {"add", "sub", "neg", "mul", "shl", "shr", "sar", "ul", "l", "lnot",
           "udiv", "umod", "sdiv", "smod"}
=============================================================================
