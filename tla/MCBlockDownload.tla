-------------------------- MODULE MCBlockDownload --------------------------
EXTENDS BlockDownload
=============================================================================
