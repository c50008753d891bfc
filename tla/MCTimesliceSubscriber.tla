------------------------ MODULE MCTimesliceSubscriber ------------------------
EXTENDS TimesliceSubscriber
=============================================================================
