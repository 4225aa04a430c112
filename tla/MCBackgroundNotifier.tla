------------------------ MODULE MCBackgroundNotifier ------------------------
\* A queue of two and five messages: it fills, drops and fills again.
EXTENDS BackgroundNotifier
============================================================================
