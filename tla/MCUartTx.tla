------------------------------ MODULE MCUartTx ------------------------------
(* UartTx with buffers of two bytes, and messages that fit in one or fill  *)
(* both partly.                                                            *)
EXTENDS UartTx

MCLengths == {1, 3}

\* The application's messages never exceed the buffer.
MCFittingLengths == {2}
=============================================================================
