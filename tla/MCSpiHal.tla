------------------------------ MODULE MCSpiHal ------------------------------
(***************************************************************************)
(* Small instances of SpiHal: which tasks there are and what they call.    *)
(***************************************************************************)
EXTENDS SpiHal, TLC

CONSTANTS a, b, c

\* Start-up: two SpiBus objects are constructed on the same controller, one
\* after the other, and their tasks then use it; a third task shares them.  Words
\* are sent where their bytes are put in order under the lock.
StartCalls == {spiStartBus(1, 0, MSBFIRST), spiStartBus(2, 3, LSBFIRST)}
OwnerCalls ==
  (a :> {spiSetClockDiv(2), spiTransferByte,
         InTransaction(2, 1, LSBFIRST, spiTransferShortNL \o spiTransferBytesNL(65))}
   @@ b :> {spiWaitReady, spiTransferBits(24), spiStopBus}
   @@ c :> {spiWrite(0), InSimpleTransaction(spiTransferBitsNL(33) \o spiWritePixelsNL(68) \o spiWriteNL(4)
                                          \o spiWriteLongNL \o spiTransferByteNL)})

\* Progress: the other functions of the driver, on one object.
SingleStart == {spiStartBus(1, 0, MSBFIRST)}
LiveCalls ==
  (a :> {spiTransfer(17), spiTransferWord, spiSSEnable, spiEnableSSPins(5), spiWriteLong, spiSSClear}
   @@ b :> {spiTransferLong, spiWriteWord, spiSSSet, spiSSDisable, spiDisableSSPins(7), spiWriteByte, spiTransferBytes(65),
            InTransaction(2, 3, MSBFIRST, spiTransferLongNL \o spiWriteShortNL \o spiWriteByteNL)}
   @@ c :> {})

\* Two tasks construct their SpiBus at the same time.
RaceCalls == (a :> {spiTransferByte} @@ b :> {spiTransferByte} @@ c :> {})

\* One task sends a word, another changes the bit order.
WordCalls == (a :> {spiWriteWord} @@ b :> {spiSetBitOrder(LSBFIRST), spiSetBitOrder(MSBFIRST)} @@ c :> {})
=============================================================================
