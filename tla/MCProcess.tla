------------------------------ MODULE MCProcess ------------------------------
EXTENDS NodeProcess

CONSTANTS h1
=============================================================================
