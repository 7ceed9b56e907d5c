--------------------------- MODULE MCConversation ---------------------------
EXTENDS Conversation
CONSTANT none
=============================================================================
