--------------------------- MODULE MCAttachments ---------------------------
EXTENDS Attachments
=============================================================================
