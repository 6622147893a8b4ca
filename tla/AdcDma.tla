------------------------------- MODULE AdcDma -------------------------------
(***************************************************************************)
(* blue-pill-tests/rs/src/bin/adc-dma-test6.rs: an RTIC application that   *)
(* scans two groups of ADC channels in turn with one ADC and one DMA       *)
(* channel.  start_adc_dma (TIM2, priority 1) starts the transfer of the   *)
(* current group, dma1_channel1 (DMA1_CHANNEL1, priority 2) takes it apart *)
(* and rebuilds the ADC/DMA pair with the pins of the other group.         *)
(*                                                                         *)
(* The peripherals are Rust values moved between Option fields of Shared:  *)
(* a field is Some or None, and assigning over a Some drops what it held.  *)
(* Every shared resource has ceiling 2, so each handler's lock closure     *)
(* runs without the other handler; the timer and the DMA engine do not     *)
(* stop for it.                                                            *)
(***************************************************************************)
EXTENDS Naturals, Sequences

CONSTANTS
    Channels,       \* the ADC input channels
    Scan,           \* Scan[s]: the regular sequence of group s; its buffer is as long
    NoSample        \* what the zero-initialised buffers hold

Group == {"One", "Two"}

ASSUME ScanAssumption == Scan \in [Group -> Seq(Channels) \ {<<>>}]

VARIABLES
    state,          \* Shared.state: the group that is scanned next
    transfer,       \* transfer[s]: transfer1/transfer2 is Some
    adc_pins,       \* adc_pins[s]: adc_pins1/adc_pins2 is Some
    adc_dma,        \* adc_dma[s]: adc_dma1/adc_dma2 is Some
    buffer,         \* buffer[s]: buffer1/buffer2 is Some
    cells,          \* memory of the two buffers: the last sample of each cell
    round,          \* round[s]: parity of the scans of group s, carried by their samples
    sequence,       \* the group whose regular sequence the ADC is set to
    target,         \* the group whose buffer the DMA channel points at
    beats,          \* conversions the running transfer has stored
    running,        \* the DMA channel is enabled
    tcif,           \* DMA transfer complete flag: requests DMA1_CHANNEL1
    uif, uie,       \* TIM2 update flag and its interrupt enable
    task            \* where start_adc_dma is

shared == <<state, transfer, adc_pins, adc_dma, buffer>>
engine == <<cells, round, sequence, target, beats, running, tcif>>
vars == <<state, transfer, adc_pins, adc_dma, buffer, cells, round, sequence,
          target, beats, running, tcif, uif, uie, task>>

Other(s) == IF s = "One" THEN "Two" ELSE "One"

\* Mutant: the conversions are programmed in the opposite order.
set_sequence_reversed(s) == [i \in 1..Len(Scan[s]) |-> Scan[s][Len(Scan[s]) + 1 - i]]

\* SetChannels of a group: the regular sequence that with_scan_dma() programs.
set_sequence(s) == Scan[s]

\* A sample is the channel it was converted from and the scan it belongs to.
Sample(s, i, r) == [chan |-> Scan[s][i], round |-> r]

(***************************************************************************)
(* init: group One is ready, the pins of group Two wait, TIM2 is started   *)
(* and listens for its update event.                                       *)
(***************************************************************************)
Init ==
    /\ state = "One"
    /\ transfer = [s \in Group |-> FALSE]
    /\ adc_pins = [s \in Group |-> s = "Two"]
    /\ adc_dma  = [s \in Group |-> s = "One"]
    /\ buffer   = [s \in Group |-> TRUE]
    /\ cells    = [s \in Group |-> [i \in 1..Len(Scan[s]) |-> NoSample]]
    /\ round = [s \in Group |-> 0]
    /\ sequence = "One"
    /\ target = "One"
    /\ beats = 0
    /\ running = FALSE
    /\ tcif = FALSE
    /\ uif = FALSE
    /\ uie = TRUE
    /\ task = "idle"

-----------------------------------------------------------------------------
(* The two peripherals.                                                    *)

\* TIM2 counts whether or not anybody listens: the flag of an update nobody
\* listened for stays set.
TimerUpdate ==
    /\ ~uif
    /\ uif' = TRUE
    /\ UNCHANGED <<shared, engine, uie, task>>

\* One conversion, stored in the next cell of the buffer that was handed to
\* read(); the cell after the last one does not exist: the transfer is complete.
DmaBeat ==
    /\ running
    /\ LET n == beats + 1
       IN /\ cells' = [cells EXCEPT ![target][n] =
                                    [chan |-> set_sequence(sequence)[n], round |-> round[target]]]
          /\ beats' = n
          /\ tcif' = (n = Len(Scan[target]))
          /\ running' = (n # Len(Scan[target]))
    /\ UNCHANGED <<shared, round, sequence, target, uif, uie, task>>

-----------------------------------------------------------------------------
(* start_adc_dma                                                           *)

\* TIM2 requests its task; nothing is locked yet.
TimEnter ==
    /\ task = "idle"
    /\ uif /\ uie
    /\ task' = "entered"
    /\ UNCHANGED <<shared, engine, uif, uie>>

\* Mutant: the channel's counter is not reloaded for the new transfer.
StartTransferKeepsCount(s) ==
    /\ adc_dma' = [adc_dma EXCEPT ![s] = FALSE]
    /\ buffer' = [buffer EXCEPT ![s] = FALSE]
    /\ transfer' = [transfer EXCEPT ![s] = TRUE]
    /\ target' = s
    /\ running' = TRUE
    /\ round' = [round EXCEPT ![s] = 1 - @]
    /\ UNCHANGED beats

\* Both halves are taken before the pattern is looked at: when one is missing
\* the other is dropped.  read() points the DMA at the buffer and starts it.
StartTransfer(s) ==
    /\ adc_dma' = [adc_dma EXCEPT ![s] = FALSE]
    /\ buffer' = [buffer EXCEPT ![s] = FALSE]
    /\ IF adc_dma[s] /\ buffer[s]
       THEN /\ transfer' = [transfer EXCEPT ![s] = TRUE]
            /\ target' = s
            /\ running' = TRUE
            /\ beats' = 0
            /\ round' = [round EXCEPT ![s] = 1 - @]
       ELSE UNCHANGED <<transfer, target, running, beats, round>>

\* Mutant: the update event stays armed while the transfer runs.
TimLockedStillListening ==
    /\ task = "entered"
    /\ uif' = FALSE
    /\ StartTransfer(state)
    /\ task' = "leaving"
    /\ UNCHANGED <<state, adc_pins, cells, sequence, tcif, uie>>

\* Mutant: the transfer is started on the buffer of the other group.
TimLockedWrongBuffer ==
    /\ task = "entered"
    /\ uif' = FALSE
    /\ uie' = FALSE
    /\ adc_dma' = [adc_dma EXCEPT ![state] = FALSE]
    /\ buffer' = [buffer EXCEPT ![Other(state)] = FALSE]
    /\ transfer' = [transfer EXCEPT ![state] = TRUE]
    /\ target' = Other(state)
    /\ running' = TRUE
    /\ beats' = 0
    /\ round' = [round EXCEPT ![state] = 1 - @]
    /\ task' = "leaving"
    /\ UNCHANGED <<state, adc_pins, cells, sequence, tcif>>

\* The lock closure: disarm TIM2, then start the scan of the current group.
TimLocked ==
    /\ task = "entered"
    /\ uif' = FALSE
    /\ uie' = FALSE
    /\ StartTransfer(state)
    /\ task' = "leaving"
    /\ UNCHANGED <<state, adc_pins, cells, sequence, tcif>>

\* The closure has returned; until here dma1_channel1 may preempt the task.
TimExit ==
    /\ task = "leaving"
    /\ task' = "idle"
    /\ UNCHANGED <<shared, engine, uif, uie>>

-----------------------------------------------------------------------------
(* dma1_channel1                                                           *)

\* Mutant: the buffer of the finished transfer is dropped after printing.
NextPairDropBuffer(s) ==
    LET o == Other(s)
        ok == transfer[s] /\ adc_pins[o]
    IN /\ transfer' = [transfer EXCEPT ![s] = FALSE]
       /\ adc_pins' = [adc_pins EXCEPT ![o] = FALSE, ![s] = @ \/ ok]
       /\ UNCHANGED buffer
       /\ IF ok
          THEN /\ adc_dma' = [adc_dma EXCEPT ![o] = TRUE]
               /\ sequence' = o
               /\ state' = o
               /\ tcif' = FALSE
               /\ running' = FALSE
          ELSE UNCHANGED <<adc_dma, sequence, state, tcif, running>>

\* wait() stops the channel and acknowledges its flag; split() gives back the
\* ADC, the pins of group s and the channel, and with_scan_dma() sets the ADC
\* to the other group's sequence.  The failing branch acknowledges nothing.
NextPair(s) ==
    LET o == Other(s)
        ok == transfer[s] /\ adc_pins[o]
    IN /\ transfer' = [transfer EXCEPT ![s] = FALSE]
       /\ adc_pins' = [adc_pins EXCEPT ![o] = FALSE, ![s] = @ \/ ok]
       /\ IF ok
          THEN /\ adc_dma' = [adc_dma EXCEPT ![o] = TRUE]
               /\ sequence' = o
               /\ buffer' = [buffer EXCEPT ![s] = TRUE]
               /\ state' = o
               /\ tcif' = FALSE
               /\ running' = FALSE
          ELSE UNCHANGED <<adc_dma, sequence, buffer, state, tcif, running>>

\* Mutant: TIM2 is restarted but nobody listens for its event again.
DmaIrqNoListen ==
    /\ tcif
    /\ NextPair(state)
    /\ UNCHANGED <<cells, round, target, beats, uif, uie, task>>

\* The handler cannot be preempted; start() restarts the count and leaves the
\* update flag as it is, listen() arms it.
DmaIrq ==
    /\ tcif
    /\ NextPair(state)
    /\ uie' = TRUE
    /\ UNCHANGED <<cells, round, target, beats, uif, task>>

Next == TimerUpdate \/ DmaBeat \/ TimEnter \/ TimLocked \/ TimExit \/ DmaIrq

Spec == Init /\ [][Next]_vars

\* The peripherals keep running and a requested handler is entered and returns.
Fairness ==
    /\ WF_vars(TimerUpdate)
    /\ WF_vars(DmaBeat)
    /\ WF_vars(TimEnter \/ TimLocked \/ TimExit)
    /\ WF_vars(DmaIrq)

FairSpec == Spec /\ Fairness

-----------------------------------------------------------------------------
Samples == [chan : Channels, round : {0, 1}] \cup {NoSample}

\* Types of the Shared fields and of the peripheral registers.
TypeOK ==
    /\ state \in Group /\ sequence \in Group /\ target \in Group
    /\ transfer \in [Group -> BOOLEAN] /\ adc_pins \in [Group -> BOOLEAN]
    /\ adc_dma \in [Group -> BOOLEAN] /\ buffer \in [Group -> BOOLEAN]
    /\ DOMAIN cells = Group
    /\ \A s \in Group : cells[s] \in [1..Len(Scan[s]) -> Samples]
    /\ round \in [Group -> {0, 1}]
    /\ beats \in 0..Len(Scan[target])
    /\ running \in BOOLEAN /\ tcif \in BOOLEAN
    /\ uif \in BOOLEAN /\ uie \in BOOLEAN
    /\ task \in {"idle", "entered", "leaving"}

\* Moving the ADC, its DMA channel, the pins and the buffers from field to
\* field never loses one (an overwritten Some) and never duplicates one: the
\* ADC is in exactly one pair or transfer, the pins of a group are in their own
\* field or with the ADC, a buffer is in its own field or in its transfer.
OneOwner ==
    /\ \E s \in Group : /\ adc_dma[s] # transfer[s]
                        /\ ~adc_dma[Other(s)] /\ ~transfer[Other(s)]
    /\ \A s \in Group : /\ adc_pins[s] = ~(adc_dma[s] \/ transfer[s])
                        /\ buffer[s] = ~transfer[s]

\* Neither handler ever takes its "ERR" branch: when the TIM2 task is about to
\* take the pair of the current group both halves are there, and when the DMA
\* interrupt is requested the transfer and the other pins are there.
NoErrorBranch ==
    /\ task = "entered" => adc_dma[state] /\ buffer[state]
    /\ tcif => transfer[state] /\ adc_pins[Other(state)]

\* What dma1_channel1 prints is one complete scan of the group in state, taken
\* in the order of its regular sequence since the last start, none of it left
\* from an earlier scan.
PrintsOneScan ==
    tcif => cells[state] = [i \in 1..Len(Scan[state]) |-> Sample(state, i, round[state])]

\* The DMA engine writes only into a buffer that its transfer owns.
NoWriteBehindOwner == running => ~buffer[target] /\ transfer[target]

\* The inductive strengthening: either the pair of the current group waits for
\* TIM2, or its transfer runs (or is complete) with TIM2 disarmed.
Armed ==
    /\ transfer = [s \in Group |-> FALSE]
    /\ adc_dma  = [s \in Group |-> s = state]
    /\ adc_pins = [s \in Group |-> s # state]
    /\ buffer   = [s \in Group |-> TRUE]
    /\ uie /\ ~running /\ ~tcif

Scanning ==
    /\ transfer = [s \in Group |-> s = state]
    /\ adc_dma  = [s \in Group |-> FALSE]
    /\ adc_pins = [s \in Group |-> s # state]
    /\ buffer   = [s \in Group |-> s # state]
    /\ ~uie /\ task # "entered"
    /\ target = state
    /\ running <=> beats < Len(Scan[state])
    /\ tcif <=> ~running
    /\ \A i \in 1..beats : cells[state][i] = Sample(state, i, round[state])

IInv == TypeOK /\ sequence = state /\ (Armed \/ Scanning)

\* The two groups are scanned in turn for ever.
BothGroupsScanned == \A s \in Group : []<>(tcif /\ state = s)
=============================================================================
