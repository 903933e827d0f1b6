------------------------------ MODULE MCUsbHid ------------------------------
EXTENDS UsbHid

=============================================================================
