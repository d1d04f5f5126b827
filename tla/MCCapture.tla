------------------------------ MODULE MCCapture ------------------------------
EXTENDS CapturePipeline, TLC

CONSTANTS s1, s2

One == <<s1>>
Two == <<s1, s2>>
=============================================================================
