------------------------- MODULE MCHardwareSignature -------------------------
EXTENDS HardwareSignature

MCWords    == 0..7
MCDevices  == {<<1>>, <<2>>, <<1, 2>>}
MCSettings == {<<3>>, <<4, 3>>}
MCXDsdt    == <<7, 7>>

\* Runtime code, reserved memory above 4 GB, boot services data.
MCDescriptors ==
  {[type |-> 5, start |-> <<1, 0>>, pages |-> <<1, 0>>],
   [type |-> 0, start |-> <<0, 1>>, pages |-> <<2, 0>>],
   [type |-> 4, start |-> <<3, 0>>, pages |-> <<3, 0>>]}
=============================================================================
