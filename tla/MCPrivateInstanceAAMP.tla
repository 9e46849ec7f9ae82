----------------------- MODULE MCPrivateInstanceAAMP -----------------------
EXTENDS PrivateInstanceAAMP, TLC

==============================================================================
