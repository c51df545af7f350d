----------------------------- MODULE MCIgStream ------------------------------
EXTENDS IgStream
CONSTANTS e1, e2
MCFirst == {e1}
MCUniverses == {{e1}, {e2}}
=============================================================================
