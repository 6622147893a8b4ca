---------------------------- MODULE AdcDmaProofs ----------------------------
(***************************************************************************)
(* The ownership of the peripherals in adc-dma-test6.rs, for channel       *)
(* groups of every length.  IInv is inductive: in every state either the   *)
(* ADC/DMA pair of the current group waits for TIM2 (Armed) or its         *)
(* transfer runs or has completed with TIM2 disarmed (Scanning).           *)
(***************************************************************************)
EXTENDS AdcDma, TLAPS

LEMMA OtherGroup ==
  ASSUME NEW s \in Group
  PROVE  /\ Other(s) \in Group /\ Other(s) # s
         /\ Group = {s, Other(s)}
  BY DEF Group, Other

LEMMA ScanLength ==
  ASSUME NEW s \in Group
  PROVE  /\ Len(Scan[s]) \in Nat /\ Len(Scan[s]) > 0
         /\ \A i \in 1..Len(Scan[s]) : Scan[s][i] \in Channels
  <1>1. Scan[s] \in Seq(Channels) /\ Scan[s] # <<>>
    BY ScanAssumption
  <1>2. QED
    BY <1>1

\* A sample of the running scan is a sample.
LEMMA SampleType ==
  ASSUME TypeOK, NEW s \in Group, NEW i \in 1..Len(Scan[s])
  PROVE  Sample(s, i, round[s]) \in Samples
  BY ScanLength DEF TypeOK, Sample, Samples

LEMMA InitInv == Init => IInv
  <1> SUFFICES ASSUME Init PROVE IInv
    OBVIOUS
  <1>1. \A s \in Group : cells[s] \in [1..Len(Scan[s]) -> Samples]
    BY DEF Init, Samples
  <1>2. "One" \in Group /\ beats \in 0..Len(Scan["One"])
    BY ScanLength DEF Init, Group
  <1>3. /\ transfer \in [Group -> BOOLEAN] /\ adc_pins \in [Group -> BOOLEAN]
        /\ adc_dma \in [Group -> BOOLEAN] /\ buffer \in [Group -> BOOLEAN]
        /\ round \in [Group -> {0, 1}] /\ DOMAIN cells = Group
    BY DEF Init
  <1>4. TypeOK
    BY <1>1, <1>2, <1>3 DEF Init, TypeOK
  <1>5. Armed
    BY DEF Init, Armed, Group
  <1>6. QED
    BY <1>4, <1>5 DEF IInv, Init

LEMMA StepInv == IInv /\ [Next]_vars => IInv'
  <1> SUFFICES ASSUME IInv, [Next]_vars PROVE IInv'
    OBVIOUS
  <1> USE DEF IInv
  <1>1. CASE TimerUpdate
    BY <1>1 DEF TimerUpdate, TypeOK, Armed, Scanning, shared, engine
  <1>2. CASE DmaBeat
    <2> DEFINE n == beats + 1
    <2>1. Scanning /\ state \in Group
      BY <1>2 DEF DmaBeat, Armed, TypeOK
    <2>2. beats \in Nat /\ n \in 1..Len(Scan[state]) /\ target = state
      BY <1>2, <2>1, ScanLength DEF DmaBeat, Scanning, TypeOK
    <2>3. cells' = [cells EXCEPT ![state][n] = Sample(state, n, round[state])]
      BY <1>2, <2>2 DEF DmaBeat, Sample, set_sequence
    <2>4. \A s \in Group : cells'[s] \in [1..Len(Scan[s]) -> Samples]
      BY <2>1, <2>2, <2>3, SampleType DEF TypeOK
    <2>5. TypeOK'
      BY <1>2, <2>2, <2>3, <2>4, ScanLength DEF DmaBeat, TypeOK, shared
    <2>6. \A i \in 1..n : cells'[state][i] = Sample(state, i, round[state])
      BY <2>1, <2>2, <2>3 DEF Scanning, TypeOK
    <2>7. /\ beats' = n /\ UNCHANGED <<state, round>>
          /\ (tcif' <=> n = Len(Scan[state])) /\ (running' <=> n # Len(Scan[state]))
      BY <1>2, <2>2 DEF DmaBeat, shared
    <2>8. (running' <=> beats' < Len(Scan[state'])) /\ (tcif' <=> ~running')
      <3>1. Len(Scan[state]) \in Nat /\ n <= Len(Scan[state]) /\ n \in Nat
        BY <2>1, <2>2, ScanLength
      <3>2. (n < Len(Scan[state])) <=> (n # Len(Scan[state]))
        BY <3>1
      <3>3. QED
        BY <2>7, <3>2
    <2>9. \A i \in 1..beats' : cells'[state'][i] = Sample(state', i, round'[state'])
      BY <2>6, <2>7
    <2>10. Scanning'
      <3>1. UNCHANGED <<state, transfer, adc_pins, adc_dma, buffer, uie, task, target>>
        BY <1>2 DEF DmaBeat, shared
      <3>2. /\ (transfer = [s \in Group |-> s = state])'
            /\ (adc_dma  = [s \in Group |-> FALSE])'
            /\ (adc_pins = [s \in Group |-> s # state])'
            /\ (buffer   = [s \in Group |-> s # state])'
            /\ (~uie /\ task # "entered" /\ target = state)'
        BY <2>1, <3>1, Zenon DEF Scanning
      <3>3. QED
        BY <2>8, <2>9, <3>2, Zenon DEF Scanning, Sample
    <2>11. QED
      BY <1>2, <2>5, <2>10 DEF DmaBeat, shared
  <1>3. CASE TimEnter
    <2>1. Armed
      BY <1>3 DEF TimEnter, Scanning
    <2>2. QED
      BY <1>3, <2>1 DEF TimEnter, TypeOK, Armed, shared, engine
  <1>4. CASE TimLocked
    <2>1. Armed /\ state \in Group
      BY <1>4 DEF TimLocked, Scanning, TypeOK
    <2>2. adc_dma[state] /\ buffer[state]
      BY <2>1 DEF Armed
    <2>3. /\ transfer' = [transfer EXCEPT ![state] = TRUE]
          /\ target' = state /\ running' /\ beats' = 0
          /\ round' = [round EXCEPT ![state] = 1 - @]
          /\ UNCHANGED <<state, adc_pins, cells, sequence, tcif>>
      BY <1>4, <2>2, SMT DEF TimLocked, StartTransfer
    <2>4. round' \in [Group -> {0, 1}]
      BY <2>1, <2>3 DEF TypeOK
    <2>5. running' = TRUE
      BY <1>4, <2>2 DEF TimLocked, StartTransfer
    <2>6. /\ adc_dma' = [adc_dma EXCEPT ![state] = FALSE]
          /\ buffer' = [buffer EXCEPT ![state] = FALSE]
          /\ uif' = FALSE /\ uie' = FALSE /\ task' = "leaving"
      BY <1>4 DEF TimLocked, StartTransfer
    <2>7. /\ transfer' = [s \in Group |-> s = state]
          /\ adc_dma' = [s \in Group |-> FALSE]
          /\ adc_pins' = [s \in Group |-> s # state]
          /\ buffer' = [s \in Group |-> s # state]
      BY <2>1, <2>3, <2>6 DEF Armed
    <2>8. Len(Scan[state]) \in Nat /\ Len(Scan[state]) > 0
      BY <2>1, ScanLength
    <2>9. TypeOK'
      <3>1. /\ transfer' \in [Group -> BOOLEAN] /\ adc_dma' \in [Group -> BOOLEAN]
            /\ adc_pins' \in [Group -> BOOLEAN] /\ buffer' \in [Group -> BOOLEAN]
        BY <2>7
      <3>2. beats' \in 0..Len(Scan[target']) /\ running' \in BOOLEAN
        BY <2>3, <2>5, <2>8
      <3>3. QED
        BY <2>1, <2>3, <2>4, <2>6, <3>1, <3>2 DEF TypeOK
    <2>13. \A i \in 1..beats' : cells'[state'][i] = Sample(state', i, round'[state'])
      BY <2>3
    <2>10. (running <=> beats < Len(Scan[state]))' /\ (tcif <=> ~running)'
      BY <2>1, <2>3, <2>5, <2>8 DEF Armed
    <2>11. Scanning'
      <3>1. /\ (transfer = [s \in Group |-> s = state])'
            /\ (adc_dma  = [s \in Group |-> FALSE])'
            /\ (adc_pins = [s \in Group |-> s # state])'
            /\ (buffer   = [s \in Group |-> s # state])'
            /\ (~uie /\ task # "entered" /\ target = state)'
        BY <2>3, <2>6, <2>7
      <3>2. QED
        BY <2>10, <2>13, <3>1, Zenon DEF Scanning, Sample
    <2>12. QED
      BY <2>3, <2>9, <2>11
  <1>5. CASE TimExit
    BY <1>5 DEF TimExit, TypeOK, Armed, Scanning, shared, engine
  <1>6. CASE DmaIrq
    <2> DEFINE o == Other(state)
    <2>1. Scanning /\ state \in Group
      BY <1>6 DEF DmaIrq, Armed, TypeOK
    <2>2. o \in Group /\ o # state /\ Group = {state, o}
      BY <2>1, OtherGroup
    <2>3. transfer[state] /\ adc_pins[o]
      BY <2>1, <2>2 DEF Scanning
    <2>4. /\ transfer' = [transfer EXCEPT ![state] = FALSE]
          /\ adc_pins' = [adc_pins EXCEPT ![o] = FALSE, ![state] = TRUE]
          /\ adc_dma' = [adc_dma EXCEPT ![o] = TRUE]
          /\ buffer' = [buffer EXCEPT ![state] = TRUE]
          /\ sequence' = o /\ state' = o /\ uie' = TRUE
          /\ tcif' = FALSE /\ running' = FALSE
          /\ UNCHANGED <<cells, round, target, beats, uif, task>>
      BY <1>6, <2>1, <2>2, <2>3 DEF DmaIrq, NextPair, TypeOK
    <2>5. TypeOK'
      BY <2>1, <2>2, <2>4 DEF TypeOK
    <2>6. Armed'
      BY ZenonT(30), <2>1, <2>2, <2>4 DEF Armed, Scanning, TypeOK
    <2>7. QED
      BY <2>4, <2>5, <2>6
  <1>7. CASE UNCHANGED vars
    BY <1>7 DEF vars, TypeOK, Armed, Scanning
  <1>8. QED
    BY <1>1, <1>2, <1>3, <1>4, <1>5, <1>6, <1>7 DEF Next

LEMMA Inductive == Spec => []IInv
  BY InitInv, StepInv, PTL DEF Spec

\* Type correctness of the shared fields and the peripheral registers.
THEOREM TypeCorrect == Spec => []TypeOK
  <1>1. IInv => TypeOK
    BY DEF IInv
  <1>2. QED
    BY <1>1, Inductive, PTL

\* The moves between the Option fields of Shared lose no peripheral, pin group
\* or buffer and duplicate none.
THEOREM Ownership == Spec => []OneOwner
  <1>1. IInv => OneOwner
    <2> SUFFICES ASSUME IInv PROVE OneOwner
      OBVIOUS
    <2>1. state \in Group /\ Other(state) \in Group /\ Other(state) # state
      BY OtherGroup DEF IInv, TypeOK
    <2>2. CASE Armed
      BY <2>1, <2>2 DEF Armed, OneOwner
    <2>3. CASE Scanning
      BY <2>1, <2>3 DEF Scanning, OneOwner
    <2>4. QED
      BY <2>2, <2>3 DEF IInv
  <1>2. QED
    BY <1>1, Inductive, PTL

\* Neither handler ever reaches the branch that prints ERR.
THEOREM ErrorBranchesDead == Spec => []NoErrorBranch
  <1>1. IInv => NoErrorBranch
    <2> SUFFICES ASSUME IInv PROVE NoErrorBranch
      OBVIOUS
    <2>1. state \in Group /\ Other(state) \in Group /\ Other(state) # state
      BY OtherGroup DEF IInv, TypeOK
    <2>2. QED
      BY <2>1 DEF IInv, Armed, Scanning, NoErrorBranch
  <1>2. QED
    BY <1>1, Inductive, PTL

\* A completed transfer holds one fresh scan of the group the handler prints.
THEOREM CompleteScan == Spec => []PrintsOneScan
  <1>1. IInv => PrintsOneScan
    <2> SUFFICES ASSUME IInv, tcif PROVE PrintsOneScan
      BY DEF PrintsOneScan
    <2>1. Scanning /\ state \in Group
      BY DEF IInv, Armed, TypeOK
    <2>2. beats = Len(Scan[state])
      BY <2>1, ScanLength DEF IInv, Scanning, TypeOK
    <2>3. cells[state] \in [1..Len(Scan[state]) -> Samples]
      BY <2>1 DEF IInv, TypeOK
    <2>4. QED
      BY <2>1, <2>2, <2>3 DEF Scanning, PrintsOneScan
  <1>2. QED
    BY <1>1, Inductive, PTL

\* The DMA engine never writes to a buffer the handlers hold.
THEOREM DmaOwnsItsBuffer == Spec => []NoWriteBehindOwner
  <1>1. IInv => NoWriteBehindOwner
    BY DEF IInv, TypeOK, Armed, Scanning, NoWriteBehindOwner
  <1>2. QED
    BY <1>1, Inductive, PTL
=============================================================================
