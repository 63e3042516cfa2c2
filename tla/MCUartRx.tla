------------------------------ MODULE MCUartRx ------------------------------
(* Answers and noise for checking UartRx: payloads with bytes that have a   *)
(* meaning in a frame; noise that is the first byte of a frame, or begins   *)
(* like a frame longer than uartcatch.                                      *)
EXTENDS UartRx

MCShortAnswers == << <<FLAG>>, <<START>> >>
MCTwoAnswers == << <<ESC, FLAG>>, <<START, START2>> >>
MCNoise == { <<START>>,
             <<START, START2, 1, 1, FLAG, FLAG, 1, 1, 1, 1, 1, 1, 1>> }
=============================================================================
