---------------------------- MODULE MCEnrolment ----------------------------
EXTENDS Enrolment, TLC
=============================================================================
