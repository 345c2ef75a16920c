-------------------------- MODULE MCCameraStreams ---------------------------
EXTENDS CameraStreams, MCHealthRules, TLC
=============================================================================
