--------------------------- MODULE TwiSlaveProofs ---------------------------
(***************************************************************************)
(* Safety of avr/i2c/i2c.c for bytes of any size and any number of bus     *)
(* errors.  The inductive invariant says how far last_data is ahead of the *)
(* byte the master knows, for every state of the interface.  The distance  *)
(* is stated with a quotient, since the provers can add multiples of Bytes *)
(* but not remainders.                                                     *)
(***************************************************************************)
EXTENDS TwiSlave, TLAPS

\* Only SR_DATA_NACK takes TWEA away, and only a slave without TWEA gets it.
AckInv ==
    /\ cpu = "reset" => ~twint /\ mode = "idle"
    /\ cpu # "reset" => twea
    /\ status # "SR_DATA_NACK"

\* last_data is n, and the values lost to bus errors, ahead of the master.
Ahead(n) == \E k \in 0..skipped, q \in Nat : agreed + n + k = last_data + q * Bytes

\* What the handler has still to do decides how far last_data is.
CountInv ==
    /\ twint /\ status = "SR_DATA_ACK" => twdr = agreed /\ skipped = 0 /\ mode = "receive"
    /\ twint /\ status \in Sends => mode = "transmit"
    /\ twint /\ mode = "transmit" => status \in Sends \cup {"BUS_ERROR"}
    /\ ~twint /\ mode = "transmit" => twdr = last_data /\ Ahead(1)
    /\ (twint \/ mode # "transmit") /\ ~(twint /\ status = "SR_DATA_ACK") => Ahead(0)

Ind == TypeOK /\ AckInv /\ CountInv

\* A byte counted up wraps at its size.
LEMMA IncLemma ==
    ASSUME NEW b \in Byte
    PROVE  Inc(b) = IF b = Bytes - 1 THEN 0 ELSE b + 1
<1>1. Bytes \in Nat \ {0}
  BY BytesAssumption
<1>2. CASE b = Bytes - 1
  <2>1. (0 + Bytes) % Bytes = 0
    BY <1>1
  <2> QED
    BY <1>1, <1>2, <2>1 DEF Inc, Byte
<1>3. CASE b # Bytes - 1
  BY <1>1, <1>3 DEF Inc, Byte
<1> QED
  BY <1>2, <1>3

\* The remainder of a byte and any number of turns is the byte.
LEMMA TurnsLemma ==
    ASSUME NEW b \in Byte, NEW q \in Nat
    PROVE  (b + q * Bytes) % Bytes = b
BY BytesAssumption DEF Byte

\* Counting last_data up takes it one further.
LEMMA AheadInc ==
    ASSUME TypeOK, TypeOK', Ahead(0), UNCHANGED <<agreed, skipped>>, last_data' = Inc(last_data)
    PROVE  Ahead(1)'
<1>1. Bytes \in Nat /\ agreed \in Nat /\ last_data \in Byte /\ skipped \in Nat
  BY BytesAssumption DEF TypeOK, Byte
<1>2. PICK k \in 0..skipped, q \in Nat : agreed + 0 + k = last_data + q * Bytes
  BY DEF Ahead
<1>3. CASE last_data = Bytes - 1
  <2>1. last_data' = 0
    BY <1>1, <1>3, IncLemma
  <2>2. (q + 1) * Bytes = q * Bytes + Bytes /\ q + 1 \in Nat /\ q * Bytes \in Nat
    BY <1>1
  <2>3. agreed + 1 + k = 0 + (q + 1) * Bytes
    BY <1>1, <1>2, <1>3, <2>2
  <2> QED
    BY <2>1, <2>2, <2>3 DEF Ahead
<1>4. CASE last_data # Bytes - 1
  <2>1. last_data' = last_data + 1
    BY <1>1, <1>4, IncLemma
  <2>2. agreed + 1 + k = last_data + 1 + q * Bytes
    BY <1>1, <1>2 DEF Byte
  <2> QED
    BY <2>1, <2>2 DEF Ahead
<1> QED
  BY <1>3, <1>4

\* Before main() runs, the master and the slave agree on the first byte.
LEMMA InitInd == Init => Ind
<1> SUFFICES ASSUME Init PROVE Ind
  OBVIOUS
<1>1. 0 \in Byte
  BY BytesAssumption DEF Byte
<1>2. twint \in BOOLEAN /\ twea \in BOOLEAN
  BY Zenon DEF Init
<1>3. TypeOK
  BY <1>1, <1>2, BytesAssumption DEF Init, TypeOK, Statuses
<1>4. agreed + 0 + 0 = last_data + 0 * Bytes /\ 0 \in 0..skipped
  BY BytesAssumption DEF Init
<1>5. Ahead(0)
  BY <1>4 DEF Ahead
<1> QED
  BY <1>3, <1>5 DEF Init, Ind, AckInv, CountInv, Sends

\* Ahead depends on three variables only.
LEMMA AheadKept ==
    ASSUME NEW n \in {0, 1}, Ahead(n), UNCHANGED <<agreed, skipped, last_data>>
    PROVE  Ahead(n)'
BY DEF Ahead

\* Every step of main(), the handler, the master and the bus preserves Ind.
LEMMA StepInd == Ind /\ [Next]_vars => Ind'
<1> SUFFICES ASSUME Ind, [Next]_vars PROVE Ind'
  OBVIOUS
<1> USE DEF Ind
<1>t. last_data \in Byte /\ twdr \in Byte /\ agreed \in Byte /\ skipped \in Nat /\ errors \in Nat
      /\ Bytes \in Nat \ {0} /\ MaxErrors \in Nat
  BY BytesAssumption DEF TypeOK
<1>i. Inc(last_data) \in Byte
  BY <1>t, IncLemma DEF Byte
<1>1. CASE Setup
  <2>1. twint' \in BOOLEAN /\ twea' \in BOOLEAN
    BY <1>1, Zenon DEF Setup, TypeOK
  <2>2. TypeOK'
    BY <1>1, <2>1 DEF Setup, TypeOK, busVars
  <2>3. AckInv'
    BY <1>1 DEF Setup, AckInv, busVars
  <2>4. CountInv'
    BY <1>1, AheadKept DEF Setup, CountInv, AckInv, busVars
  <2> QED
    BY <2>2, <2>3, <2>4
<1>2. CASE Sei
  <2>1. TypeOK'
    BY <1>2 DEF Sei, TypeOK, busVars
  <2>2. AckInv'
    BY <1>2 DEF Sei, AckInv, busVars
  <2>3. CountInv'
    BY <1>2, AheadKept DEF Sei, CountInv, busVars
  <2> QED
    BY <2>1, <2>2, <2>3
<1>3. CASE Handler
  <2>1. twint' \in BOOLEAN /\ twea' \in BOOLEAN
    BY <1>3, Zenon DEF Handler
  <2>2. TypeOK'
    BY <1>3, <1>t, <1>i, <2>1 DEF Handler, TypeOK
  <2>3. AckInv'
    BY <1>3 DEF Handler, AckInv
  <2>4. CASE status = "NO_INFO"
    <3>1. Ahead(0)'
      BY <1>3, <2>4, AheadKept DEF Handler, CountInv, Sends
    <3> QED
      BY <1>3, <2>2, <2>3, <2>4, <3>1 DEF Handler, CountInv, Sends
  <2>5. CASE status \in Sends
    <3>1. Ahead(1)'
      BY <1>3, <2>5, <2>2, AheadInc DEF Handler, CountInv, Sends
    <3> QED
      BY <1>3, <2>2, <2>3, <2>5, <3>1 DEF Handler, CountInv, Sends
  <2>6. CASE status = "SR_DATA_ACK"
    <3>1. agreed' + 0 + 0 = last_data' + 0 * Bytes /\ 0 \in 0..skipped'
      BY <1>3, <1>t, <2>6 DEF Handler, CountInv, Byte
    <3>2. Ahead(0)'
      BY <3>1 DEF Ahead
    <3> QED
      BY <1>3, <2>2, <2>3, <2>6, <3>2 DEF Handler, CountInv, Sends
  <2>7. CASE status \notin Sends \cup {"NO_INFO", "SR_DATA_ACK"}
    <3>1. Ahead(0)'
      BY <1>3, <2>7, AheadKept DEF Handler, CountInv, Sends
    <3> QED
      BY <1>3, <2>2, <2>3, <2>7, <3>1 DEF Handler, CountInv, Sends
  <2> QED
    BY <2>2, <2>3, <2>4, <2>5, <2>6, <2>7
<1>4. ASSUME NEW s, NEW m, Address(s, m), <<s, m>> \in {<<"SR_SLA_ACK", "receive">>, <<"ST_SLA_ACK", "transmit">>}
      PROVE  Ind'
  <2>1. TypeOK'
    BY <1>4 DEF Address, Event, TypeOK, Statuses
  <2>2. AckInv'
    BY <1>4 DEF Address, Event, AckInv
  <2>3. Ahead(0)'
    BY <1>4, AheadKept DEF Address, Event, CountInv
  <2>4. CountInv'
    BY <1>4, <2>3 DEF Address, Event, CountInv, Sends
  <2> QED
    BY <2>1, <2>2, <2>4
<1>5. CASE Stop
  <2>1. TypeOK'
    BY <1>5 DEF Stop, Event, TypeOK, Statuses
  <2>2. AckInv'
    BY <1>5 DEF Stop, Event, AckInv
  <2>3. Ahead(0)'
    BY <1>5, AheadKept DEF Stop, Event, CountInv
  <2>4. CountInv'
    BY <1>5, <2>3 DEF Stop, Event, CountInv, Sends
  <2> QED
    BY <2>1, <2>2, <2>4
<1>6. CASE BusError
  <2>1. TypeOK'
    BY <1>6, <1>t DEF BusError, Event, TypeOK, Statuses
  <2>2. AckInv'
    BY <1>6 DEF BusError, Event, AckInv
  <2>3. Ahead(0)'
    <3>1. CASE mode = "transmit"
      <4>1. PICK k \in 0..skipped, q \in Nat : agreed + 1 + k = last_data + q * Bytes
        BY <1>6, <3>1 DEF BusError, Event, CountInv, Ahead
      <4>2. agreed' + 0 + (k + 1) = last_data' + q * Bytes /\ k + 1 \in 0..skipped'
        BY <1>6, <1>t, <3>1, <4>1 DEF BusError, Byte
      <4> QED
        BY <4>2 DEF Ahead
    <3>2. CASE mode # "transmit"
      BY <1>6, <3>2, AheadKept DEF BusError, Event, CountInv
    <3> QED
      BY <3>1, <3>2
  <2>4. CountInv'
    BY <1>6, <2>3 DEF BusError, Event, CountInv, Sends
  <2> QED
    BY <2>1, <2>2, <2>4
<1>7. ASSUME NEW b \in Byte, WriteByte(b) PROVE Ind'
  <2>1. twea
    BY <1>7 DEF WriteByte, Event, AckInv
  <2>2. TypeOK'
    BY <1>7, <1>t, <2>1 DEF WriteByte, Event, TypeOK, Statuses
  <2>3. AckInv'
    BY <1>7, <2>1 DEF WriteByte, Event, AckInv
  <2>4. CountInv'
    BY <1>7, <2>1 DEF WriteByte, Event, CountInv, Sends
  <2> QED
    BY <2>2, <2>3, <2>4
<1>8. ASSUME NEW more \in BOOLEAN, ReadByte(more) PROVE Ind'
  <2>1. twea /\ twdr = last_data
    BY <1>8 DEF ReadByte, Event, AckInv, CountInv
  <2>2. TypeOK'
    BY <1>8, <1>t, <2>1 DEF ReadByte, Event, TypeOK, Statuses
  <2>3. AckInv'
    BY <1>8, <2>1 DEF ReadByte, Event, AckInv
  <2>4. Ahead(0)'
    <3>1. agreed' + 0 + 0 = last_data' + 0 * Bytes /\ 0 \in 0..skipped'
      BY <1>8, <1>t, <2>1 DEF ReadByte, Byte
    <3> QED
      BY <3>1 DEF Ahead
  <2>5. CountInv'
    BY <1>8, <2>1, <2>4 DEF ReadByte, Event, CountInv, Sends
  <2> QED
    BY <2>2, <2>3, <2>5
<1>9. CASE UNCHANGED vars
  BY <1>9, AheadKept DEF vars, busVars, TypeOK, AckInv, CountInv
<1> QED
  BY <1>1, <1>2, <1>3, <1>4, <1>5, <1>6, <1>7, <1>8, <1>9 DEF Next, Bus

\* All reachable states satisfy Ind.
THEOREM Inductive == Spec => []Ind
BY InitInd, StepInd, PTL DEF Spec

\* TypeOK: registers, counters and modes of i2c.c stay in range.
THEOREM TypeCorrect == Spec => []TypeOK
BY Inductive, PTL DEF Ind

\* NeverDeaf: handle_TW_STATUS() never leaves TWEA cleared.
THEOREM DeafSafe == Spec => []NeverDeaf
<1>1. Ind => NeverDeaf
  BY DEF Ind, AckInv, NeverDeaf
<1> QED
  BY <1>1, Inductive, PTL

\* ReadsCountUp: what handle_TW_STATUS() sends continues the byte the master
\* wrote or read last.
THEOREM CountSafe == Spec => ReadsCountUp
<1> DEFINE Counts == \A more \in BOOLEAN : ReadByte(more) =>
                        agreed' \in {(agreed + 1 + k) % Bytes : k \in 0..skipped}
<1>1. Ind => Counts
  <2> SUFFICES ASSUME Ind, NEW more \in BOOLEAN, ReadByte(more)
               PROVE  agreed' \in {(agreed + 1 + k) % Bytes : k \in 0..skipped}
    BY DEF Counts
  <2>1. twdr \in Byte /\ twdr = last_data /\ Ahead(1)
    BY DEF ReadByte, Event, Ind, TypeOK, CountInv
  <2>2. PICK k \in 0..skipped, q \in Nat : agreed + 1 + k = last_data + q * Bytes
    BY <2>1 DEF Ahead
  <2>3. (agreed + 1 + k) % Bytes = twdr
    BY <2>1, <2>2, TurnsLemma
  <2> QED
    BY <2>3 DEF ReadByte
<1> QED
  BY <1>1, Inductive, PTL DEF ReadsCountUp

=============================================================================
