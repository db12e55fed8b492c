------------------------ MODULE MCLibraryAwayReminders -----------------------
EXTENDS LibraryAwayReminders
=============================================================================
