------------------------------ MODULE MCRamdisk ------------------------------
EXTENDS Ramdisk

MCNames == {<<1>>, <<2>>, <<2, 1>>}

MCContents == {<<>>, <<1>>, <<NUL>>, <<2, NUL>>, <<NUL, 1, 1>>}
=============================================================================
