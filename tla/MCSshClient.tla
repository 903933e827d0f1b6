---------------------------- MODULE MCSshClient ----------------------------
EXTENDS SshClient

=============================================================================
