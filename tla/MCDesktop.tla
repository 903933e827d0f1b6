----------------------------- MODULE MCDesktop ------------------------------
EXTENDS Desktop

=============================================================================
