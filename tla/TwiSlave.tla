------------------------------ MODULE TwiSlave ------------------------------
(***************************************************************************)
(* avr/i2c/i2c.c: an I2C slave on the two-wire interface of an ATmega16A.  *)
(* Everything happens in the interrupt handler; after each event on the    *)
(* bus the hardware holds the clock down until the handler has written     *)
(* TWCR with TWINT, and what it writes decides whether the next byte or    *)
(* address is acknowledged.  A master that reads gets the byte it wrote    *)
(* last, counted up with each byte read.                                   *)
(*                                                                         *)
(* The interface and the master (the actions of the bus) are external, as  *)
(* the handler expects them: TWAR without TWGCE does not answer general    *)
(* calls, and a slave never loses arbitration.  The LEDs are left out.     *)
(***************************************************************************)
EXTENDS Naturals

CONSTANTS
    Bytes,       \* values of a byte, 256 in the hardware
    MaxErrors    \* bound: bus errors

ASSUME BytesAssumption == Bytes \in Nat \ {0} /\ MaxErrors \in Nat

Byte == 0..(Bytes - 1)
Inc(b) == (b + 1) % Bytes

VARIABLES
    cpu,        \* main(): "reset", "ready" (TWCR written), "sleep" (sei() done)
    last_data,  \* handle_TW_STATUS(): last_data
    twint,      \* TWCR: an event waits for the handler and holds the clock
    twea,       \* TWCR: acknowledge
    status,     \* TW_STATUS
    twdr,       \* TWDR
    mode,       \* the interface: "idle", "receive" or "transmit"
    agreed,     \* the byte the master wrote or read last
    errors,     \* bus errors so far
    skipped     \* bus errors since the master wrote or read a byte

busVars == <<status, twdr, mode, agreed, errors, skipped>>
vars == <<cpu, last_data, twint, twea, busVars>>

Statuses == {"NO_INFO", "SR_SLA_ACK", "SR_DATA_ACK", "SR_DATA_NACK", "SR_STOP",
             "ST_SLA_ACK", "ST_DATA_ACK", "ST_DATA_NACK", "ST_LAST_DATA", "BUS_ERROR"}

TypeOK ==
    /\ cpu \in {"reset", "ready", "sleep"}
    /\ last_data \in Byte /\ twdr \in Byte /\ agreed \in Byte
    /\ twint \in BOOLEAN /\ twea \in BOOLEAN
    /\ status \in Statuses /\ mode \in {"idle", "receive", "transmit"}
    /\ errors \in 0..MaxErrors /\ skipped \in 0..errors

Init ==
    /\ cpu = "reset" /\ last_data = 0 /\ agreed = 0
    /\ twint = FALSE /\ twea = FALSE /\ status = "NO_INFO" /\ mode = "idle"
    /\ twdr \in Byte /\ errors = 0 /\ skipped = 0

-----------------------------------------------------------------------------
\* TWAR, TWCR with TWEN, TWEA and TWIE.
Setup ==
    /\ cpu = "reset" /\ cpu' = "ready"
    /\ twea' = TRUE
    /\ UNCHANGED <<last_data, twint, busVars>>

Sei == cpu = "ready" /\ cpu' = "sleep" /\ UNCHANGED <<last_data, twint, twea, busVars>>

Sends == {"ST_SLA_ACK", "ST_DATA_ACK"}

\* Fault: the stop condition is left alone.
HandlerIgnoresStop ==
    /\ cpu = "sleep" /\ twint
    /\ last_data' = IF status = "SR_DATA_ACK" THEN twdr
                    ELSE IF status \in Sends THEN Inc(last_data) ELSE last_data
    /\ twdr' = IF status \in Sends THEN Inc(last_data) ELSE twdr
    /\ twint' = (status \in {"NO_INFO", "SR_STOP"})
    /\ UNCHANGED <<cpu, twea, status, mode, agreed, errors, skipped>>

\* Fault: the last byte sent is answered like a byte not wanted.
HandlerNacks ==
    /\ cpu = "sleep" /\ twint
    /\ last_data' = IF status = "SR_DATA_ACK" THEN twdr
                    ELSE IF status \in Sends THEN Inc(last_data) ELSE last_data
    /\ twdr' = IF status \in Sends THEN Inc(last_data) ELSE twdr
    /\ twint' = (status = "NO_INFO")
    /\ twea' = (status \notin {"SR_DATA_NACK", "ST_DATA_NACK"})
    /\ mode' = IF status = "BUS_ERROR" THEN "idle" ELSE mode
    /\ UNCHANGED <<cpu, status, agreed, errors, skipped>>

\* Fault: the counter goes on also when the master has read enough.
HandlerCountsNack ==
    LET sends == Sends \cup {"ST_DATA_NACK"} IN
    /\ cpu = "sleep" /\ twint
    /\ last_data' = IF status = "SR_DATA_ACK" THEN twdr
                    ELSE IF status \in sends THEN Inc(last_data) ELSE last_data
    /\ twdr' = IF status \in sends THEN Inc(last_data) ELSE twdr
    /\ twint' = (status = "NO_INFO")
    /\ twea' = (status # "SR_DATA_NACK")
    /\ mode' = IF status = "BUS_ERROR" THEN "idle" ELSE mode
    /\ UNCHANGED <<cpu, status, agreed, errors, skipped>>

\* ISR(TWI_vect), handle_TW_STATUS(), set_TWCR(): a byte received is kept, one
\* to be sent is counted up; all statuses but NO_INFO write TWCR with TWINT,
\* all but SR_DATA_NACK with TWEA, and BUS_ERROR with TWSTO, which recovers.
Handler ==
    /\ cpu = "sleep" /\ twint
    /\ last_data' = IF status = "SR_DATA_ACK" THEN twdr
                    ELSE IF status \in Sends THEN Inc(last_data) ELSE last_data
    /\ twdr' = IF status \in Sends THEN Inc(last_data) ELSE twdr
    /\ twint' = (status = "NO_INFO")
    /\ twea' = (status # "SR_DATA_NACK")
    /\ mode' = IF status = "BUS_ERROR" THEN "idle" ELSE mode
    /\ UNCHANGED <<cpu, status, agreed, errors, skipped>>

-----------------------------------------------------------------------------
(* The bus.  The master cannot go on while the clock is held down. *)

Event(s) == cpu # "reset" /\ ~twint /\ twint' = TRUE /\ status' = s

\* The slave's address, to write or to read; without TWEA nobody answers.
Address(s, m) ==
    /\ mode = "idle" /\ twea /\ Event(s)
    /\ mode' = m
    /\ UNCHANGED <<cpu, last_data, twea, twdr, agreed, errors, skipped>>

WriteByte(b) ==
    /\ mode = "receive" /\ Event(IF twea THEN "SR_DATA_ACK" ELSE "SR_DATA_NACK")
    /\ mode' = IF twea THEN "receive" ELSE "idle"
    /\ twdr' = b
    /\ agreed' = IF twea THEN b ELSE agreed
    /\ skipped' = IF twea THEN 0 ELSE skipped
    /\ UNCHANGED <<cpu, last_data, twea, errors>>

\* A stop condition or a repeated start.
Stop ==
    /\ mode = "receive" /\ Event("SR_STOP")
    /\ mode' = "idle"
    /\ UNCHANGED <<cpu, last_data, twea, twdr, agreed, errors, skipped>>

\* The master reads TWDR and asks for another byte or not.
ReadByte(more) ==
    /\ mode = "transmit"
    /\ Event(IF ~more THEN "ST_DATA_NACK" ELSE IF twea THEN "ST_DATA_ACK" ELSE "ST_LAST_DATA")
    /\ mode' = IF more /\ twea THEN "transmit" ELSE "idle"
    /\ agreed' = twdr /\ skipped' = 0
    /\ UNCHANGED <<cpu, last_data, twea, twdr, errors>>

\* An illegal start or stop; a byte on its way to the master is lost.
BusError ==
    /\ errors < MaxErrors /\ Event("BUS_ERROR")
    /\ errors' = errors + 1
    /\ skipped' = IF mode = "transmit" THEN skipped + 1 ELSE skipped
    /\ UNCHANGED <<cpu, last_data, twea, twdr, mode, agreed>>

Bus ==
    \/ Address("SR_SLA_ACK", "receive") \/ Address("ST_SLA_ACK", "transmit")
    \/ Stop \/ BusError
    \/ \E b \in Byte : WriteByte(b)
    \/ \E more \in BOOLEAN : ReadByte(more)

Next == Setup \/ Sei \/ Handler \/ Bus

Spec == Init /\ [][Next]_vars

\* Fairness: main() gets to its loop and a pending interrupt is taken; the
\* master need not do anything.
FairSpec == Spec /\ WF_vars(Setup) /\ WF_vars(Sei) /\ WF_vars(Handler)

-----------------------------------------------------------------------------
(* Properties. *)

\* What a master reads counts up from the byte it wrote or read last, over
\* stops, repeated starts, changes of direction and the wrap of last_data; only
\* a bus error can make it miss values, one each.
ReadsCountUp ==
    [][\A more \in BOOLEAN : ReadByte(more) =>
            agreed' \in {(agreed + 1 + k) % Bytes : k \in 0..skipped}]_vars

\* The slave never stops acknowledging: the answer to SR_DATA_NACK, which would
\* make it deaf to its own address for good, is never given.
NeverDeaf == cpu # "reset" => twea

\* The clock is not held down for ever, also by an event before sei().
ClockReleased == twint ~> ~twint

=============================================================================
