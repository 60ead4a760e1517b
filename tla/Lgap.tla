-------------------------------- MODULE Lgap --------------------------------
(***************************************************************************)
(* LGAP/lgap.c: polls an LG air conditioner over a serial line and, when   *)
(* options ask for a change, reads the unit's settings, merges the options *)
(* into them and sends them back with the EXE bit, in at most ten          *)
(* query/answer turns.                                                     *)
(*                                                                         *)
(* A frame is cut down to what matters: one setting the options may change *)
(* (fan), one they leave alone (temp), and the checksum.  Bytes are        *)
(* numbers below Bytes and the checksum is the sum with a bit flipped, as  *)
(* `sum ^ 0x55`, so that the zeroed buffer has a wrong one.  The unit and  *)
(* the line, which lose, cut and garble answers, are external.             *)
(***************************************************************************)
EXTENDS Integers, FiniteSets

CONSTANTS
    Bytes,   \* values of a byte, 256
    Turns    \* the 10 of the loop

ASSUME SizeAssumption == Bytes \in {2 * i : i \in 1..128} /\ Turns \in Nat \ {0}

VARIABLES
    lpc,        \* "options", "write", "read", "done"
    a,          \* loop counter
    opt_fan,    \* -1 when not given
    set,
    query,      \* the frame to send
    resp,       \* the receive buffer, never cleared
    unit,       \* the unit's settings
    exeSent,    \* turns that sent EXE
    heard,      \* settings in the last complete, unharmed answer, if any
    cut         \* an answer came in only in part

lgapVars == <<lpc, a, opt_fan, set, query, resp, unit, exeSent, heard, cut>>

Byte == 0..(Bytes - 1)
Fans == Byte \ {0}                      \* Fan_first .. Fan_last
Settings == [fan : Byte, temp : Byte]

\* Fault: the checksum is the plain sum.
PlainSum(p) == (p.fan + p.temp) % Bytes

\* compute_checksum(): the sum in a byte, with bits flipped.
compute_checksum(p) ==
    LET sum == (p.fan + p.temp) % Bytes
    IN  IF sum % 2 = 0 THEN sum + 1 ELSE sum - 1

\* The EXE bit is part of the payload, too.
QuerySum(fan, temp, exe) == compute_checksum([fan |-> fan, temp |-> (temp + exe) % Bytes])

Query(fan, temp, exe) ==
    [fan |-> fan, temp |-> temp, exe |-> exe, checksum |-> QuerySum(fan, temp, exe)]

LgapTypeOK ==
    /\ lpc \in {"options", "write", "read", "done"}
    /\ a \in 0..Turns
    /\ opt_fan \in Fans \cup {-1}
    /\ set \in BOOLEAN
    /\ query \in [fan : Byte, temp : Byte, exe : 0..1, checksum : Byte]
    /\ resp \in [fan : Byte, temp : Byte, checksum : Byte]
    /\ unit \in Settings
    /\ exeSent \in 0..Turns
    /\ heard \in SUBSET Settings
    /\ cut \in BOOLEAN

LgapInit ==
    /\ lpc = "options" /\ a = 0
    /\ opt_fan = -1 /\ set = FALSE
    /\ query = Query(0, 0, 0)
    /\ resp = [fan |-> 0, temp |-> 0, checksum |-> 0]
    /\ unit \in Settings
    /\ exeSent = 0 /\ heard = {} /\ cut = FALSE

-----------------------------------------------------------------------------
\* -f v: a value out of range undoes an earlier one, though not `set`.
Option(v) ==
    /\ lpc = "options"
    /\ opt_fan' = IF v \in Fans THEN v ELSE -1
    /\ set' = (set \/ v \in Fans)
    /\ UNCHANGED <<lpc, a, query, resp, unit, exeSent, heard, cut>>

\* The options are read, the port is open and the first query is ready.
OptionsDone ==
    /\ lpc = "options"
    /\ lpc' = "write"
    /\ UNCHANGED <<a, opt_fan, set, query, resp, unit, exeSent, heard, cut>>

\* A turn begins with write(); a unit that gets an EXE query obeys it.
Write ==
    /\ lpc = "write"
    /\ exeSent' = exeSent + query.exe
    /\ unit' \in {unit} \cup
        (IF query.exe = 1 THEN {[fan |-> query.fan, temp |-> query.temp]} ELSE {})
    /\ lpc' = "read"
    /\ UNCHANGED <<a, opt_fan, set, query, resp, heard, cut>>

\* What the buffer holds after read(): as before (-1, nothing has come), an
\* answer, an answer with one byte garbled, or the front of one over the rest of
\* what was there: 8 bytes are enough for the length test, the fan is the 14th,
\* the temperature the 15th, the checksum the 23rd.
Answer == [fan |-> unit.fan, temp |-> unit.temp, checksum |-> compute_checksum(unit)]
Garbled == {[Answer EXCEPT ![f] = b] : f \in DOMAIN Answer, b \in Byte} \ {Answer}
Front == {resp, [resp EXCEPT !.fan = Answer.fan],
          [resp EXCEPT !.fan = Answer.fan, !.temp = Answer.temp]}

\* Fault: EXE is withdrawn without a new checksum.
MergeOldSum(r) ==
    LET good == compute_checksum(r) = r.checksum
        fan == IF opt_fan >= 0 THEN opt_fan ELSE r.fan IN
    /\ resp' = r
    /\ query' = CASE good /\ set -> Query(fan, r.temp, 1)
                  [] good /\ ~set /\ query.exe = 1 -> [query EXCEPT !.exe = 0]
                  [] OTHER -> query
    /\ set' = (set /\ ~good)

\* Fault: EXE is withdrawn in the turn that asks for it.
MergeWithdraws(r) ==
    LET good == compute_checksum(r) = r.checksum IN
    /\ resp' = r
    /\ query' = IF good THEN Query(query.fan, query.temp, 0) ELSE query
    /\ set' = (set /\ ~good)

\* Fault: `set` stays true and EXE is looked at first, so that answers toggle it.
MergeKeepsSet(r) ==
    LET good == compute_checksum(r) = r.checksum
        fan == IF opt_fan >= 0 THEN opt_fan ELSE r.fan IN
    /\ resp' = r
    /\ query' = CASE good /\ set /\ query.exe = 0 -> Query(fan, r.temp, 1)
                  [] good /\ query.exe = 1 -> Query(query.fan, query.temp, 0)
                  [] OTHER -> query
    /\ UNCHANGED set

\* The rest of a turn, with r in the buffer: a wrong checksum changes nothing; a
\* right one makes the wanted change the next query, or withdraws EXE.
Merge(r) ==
    LET good == compute_checksum(r) = r.checksum
        fan == IF opt_fan >= 0 THEN opt_fan ELSE r.fan IN
    /\ resp' = r
    /\ query' = CASE good /\ set -> Query(fan, r.temp, 1)
                  [] good /\ ~set /\ query.exe = 1 -> Query(query.fan, query.temp, 0)
                  [] OTHER -> query
    /\ set' = (set /\ ~good)

NextTurn == a' = a + 1 /\ lpc' = IF a + 1 = Turns THEN "done" ELSE "write"

\* read() and what follows: an answer, a garbled one, the front of one, no data
\* (rd == -1, which is not below a size_t) or less than 8 bytes, the end.
Read ==
    /\ lpc = "read"
    /\ \/ /\ Merge(Answer) /\ heard' = {unit} /\ UNCHANGED cut
          /\ NextTurn
       \/ /\ \E r \in Garbled : Merge(r)
          /\ NextTurn /\ UNCHANGED <<heard, cut>>
       \/ /\ \E r \in Front : Merge(r)
          /\ cut' = TRUE /\ NextTurn /\ UNCHANGED heard
       \/ /\ Merge(resp)                                     \* rd == -1
          /\ NextTurn /\ UNCHANGED <<heard, cut>>
       \/ /\ lpc' = "done"                                    \* rd in 0..7
          /\ UNCHANGED <<a, set, query, resp, heard, cut>>
    /\ UNCHANGED <<opt_fan, unit, exeSent>>

\* Somebody uses the unit's own panel.
UnitChanges ==
    /\ lpc \in {"write", "read"}
    /\ unit' \in Settings
    /\ UNCHANGED <<lpc, a, opt_fan, set, query, resp, exeSent, heard, cut>>

LgapFinished == lpc = "done" /\ UNCHANGED lgapVars

LgapNext ==
    \/ \E v \in Byte : Option(v)
    \/ OptionsDone \/ Write \/ Read \/ UnitChanges \/ LgapFinished

LgapSpec == LgapInit /\ [][LgapNext]_lgapVars

-----------------------------------------------------------------------------
(* Properties. *)

\* Every frame goes out with the checksum of what it carries, also after the
\* EXE bit was set and withdrawn.
FramesAreConsistent ==
    query.checksum = QuerySum(query.fan, query.temp, query.exe)

\* A command never carries made-up settings: what the options leave alone was
\* reported by the unit in its last complete answer.  The zeroed buffer, a missing
\* answer (rd == -1 passes the length test) and a garbled byte are all told by
\* the checksum.  Answers cut short are not, as the length test compares with
\* sizeof(sizeof(resp)).
CommandsAreReported ==
    query.exe = 1 /\ ~cut =>
        \E s \in heard : query.temp = s.temp /\ query.fan \in {s.fan, opt_fan}

\* A change that was merged is also sent, unless the answer it was merged with
\* came in the very last turn.
MergedIsSent ==
    lpc = "done" /\ opt_fan >= 0 /\ ~set => exeSent > 0 \/ (a = Turns /\ query.exe = 1)

\* EXE goes out in one unbroken run of turns: once withdrawn, no later answer,
\* fresh or stale, brings it back.
CommandNotRevived == [][exeSent > 0 /\ query.exe = 0 => query'.exe = 0]_lgapVars

=============================================================================
