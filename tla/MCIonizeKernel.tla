--------------------------- MODULE MCIonizeKernel ---------------------------
(* Model-checking instance of IonizeKernel: a block of three threads (the *)
(* frame size), two ion frames and up to two electrons per ionizer call,  *)
(* so one ion frame can ask for 6 electrons (two frames' worth) and the   *)
(* fill counter crosses a frame boundary inside one round and between     *)
(* ion frames.                                                            *)
EXTENDS IonizeKernel

MCN == 3
MCMaxIonFrames == 2
MCMaxNewElectrons == 2
=============================================================================
