----------------------------- MODULE MCAttachments -----------------------------
EXTENDS Attachments, TLC

DevicesSymmetry == Permutations(Devices)
=============================================================================
