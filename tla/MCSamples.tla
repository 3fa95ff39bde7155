------------------------------- MODULE MCSamples ------------------------------
EXTENDS Samples
==============================================================================
