---------------------------- MODULE RemoteTuner ----------------------------
(***************************************************************************)
(* remote_tuner.c: a server that, for one connection at a time, starts     *)
(* tzap for each channel name the peer sends and copies the DVB stream     *)
(* back.  handle_conn() is a poll() loop over the connection and, once     *)
(* tuned, the stream; it reaps tzap in passing and signals it at the end.  *)
(*                                                                         *)
(* External: the peer, the life of the tzap processes and of the process   *)
(* identifiers they leave free, and the DVB device.                        *)
(***************************************************************************)
EXTENDS Naturals

CONSTANTS
    Pids,       \* process identifiers
    NoPid,      \* tzap_pid == -1
    MaxConns,   \* bound: connections
    MaxReqs     \* bound: channel names per connection

ASSUME PidAssumption == NoPid \notin Pids
ASSUME BoundsAssumption == MaxConns \in Nat /\ MaxReqs \in Nat

VARIABLES
    tpc,        \* the server
    tzap_pid,   \* the global tzap_pid
    nfds,       \* handle_conn(): pollfds
    revents,    \* handle_conn(): what the last poll() left in pollfd[]
    stream,     \* pollfd[1].fd: "none", "empty" or "data"
    peer,       \* "idle", "request" (a text was sent) or "closed" (its socket is)
    proc,       \* pid: "none", "tzap", "zombie" or "foreign"
    signalled,  \* tzaps that were sent SIGTERM
    reqs,       \* requests served on this connection
    forgotten,  \* tzaps whose identifier a second request of their connection overwrote
    replaced,   \* this turn of the loop replaced the stream's descriptor
    conns       \* connections accepted

peerVars == <<peer, conns>>
procVars == <<proc, signalled>>
connVars == <<nfds, revents, stream, reqs, forgotten, replaced>>
tunerVars == <<tpc, tzap_pid, connVars, peerVars, procVars>>

Events == {"conn_in", "conn_hup", "dvr_in", "dvr_hup"}

TunerTypeOK ==
    /\ tpc \in {"accept", "poll", "reap", "hup", "conn", "dvr", "blocked", "write", "exit"}
    /\ tzap_pid \in Pids \cup {NoPid}
    /\ nfds \in 1..2
    /\ revents \in SUBSET Events
    /\ stream \in {"none", "empty", "data"}
    /\ peer \in {"idle", "request", "closed"}
    /\ proc \in [Pids -> {"none", "tzap", "zombie", "foreign"}]
    /\ signalled \in SUBSET Pids
    /\ reqs \in 0..MaxReqs
    /\ forgotten \in SUBSET Pids
    /\ replaced \in BOOLEAN
    /\ conns \in 0..MaxConns

TunerInit ==
    /\ tpc = "accept" /\ tzap_pid = NoPid
    /\ nfds = 1 /\ revents = {} /\ stream = "none" /\ reqs = 0
    /\ forgotten = {} /\ replaced = FALSE
    /\ peer = "closed" /\ conns = 0
    /\ proc = [p \in Pids |-> "none"] /\ signalled = {}

-----------------------------------------------------------------------------
(* The server. *)

\* Fault: pollfd[] is static and keeps what the last connection left in it.
AcceptKeepsPollfd ==
    /\ tpc = "accept" /\ conns < MaxConns
    /\ conns' = conns + 1 /\ peer' = "idle"
    /\ nfds' = 1 /\ stream' = "none" /\ reqs' = 0 /\ replaced' = FALSE
    /\ tpc' = "poll"
    /\ UNCHANGED <<tzap_pid, revents, forgotten, procVars>>

\* accept() returns and handle_conn() sets up its pollfd[].
Accept ==
    /\ tpc = "accept" /\ conns < MaxConns
    /\ conns' = conns + 1 /\ peer' = "idle"
    /\ nfds' = 1 /\ revents' = {} /\ stream' = "none" /\ reqs' = 0 /\ replaced' = FALSE
    /\ tpc' = "poll"
    /\ UNCHANGED <<tzap_pid, forgotten, procVars>>

\* accept() fails: err().
AcceptFails ==
    /\ tpc = "accept"
    /\ tpc' = "exit"
    /\ UNCHANGED <<tzap_pid, connVars, peerVars, procVars>>

\* What poll() reports: a line or the end of the peer's data is POLLIN, a peer
\* that is gone may also be a hang-up, and so may the stream at any time.
Reported ==
    {ev \in SUBSET Events :
        /\ "conn_in" \in ev <=> peer # "idle"
        /\ "conn_hup" \in ev => peer = "closed"
        /\ "dvr_in" \in ev <=> nfds = 2 /\ stream = "data"
        /\ "dvr_hup" \in ev => nfds = 2}

\* poll() of nfds descriptors returns, possibly after its time-out, or fails;
\* entries it was not given keep their revents.
Poll ==
    /\ tpc = "poll"
    /\ \/ tpc' = "exit" /\ UNCHANGED revents
       \/ /\ revents' \in {ev \cup (IF nfds = 1 THEN revents \cap {"dvr_in", "dvr_hup"} ELSE {})
                             : ev \in Reported}
          /\ tpc' = "reap"
    /\ replaced' = FALSE
    /\ UNCHANGED <<tzap_pid, nfds, stream, reqs, forgotten, peerVars, procVars>>

\* The process tzap_pid names.
TzapState == IF tzap_pid = NoPid THEN "unset" ELSE proc[tzap_pid]

\* Fault: tzap_pid keeps the identifier of the reaped process.
ReapTzapKeepsPid ==
    /\ tpc = "reap"
    /\ IF TzapState = "zombie"
       THEN proc' = [proc EXCEPT ![tzap_pid] = "none"] /\ signalled' = signalled \ {tzap_pid}
       ELSE UNCHANGED procVars
    /\ tpc' = "hup"
    /\ UNCHANGED <<tzap_pid, connVars, peerVars>>

\* waitpid(tzap_pid, WNOHANG): nothing, the dead tzap, or an error that ends the
\* server when the process is not its child.
ReapTzap ==
    /\ tpc = "reap"
    /\ \/ /\ TzapState \in {"unset", "tzap"}
          /\ tpc' = "hup" /\ UNCHANGED <<tzap_pid, procVars>>
       \/ /\ TzapState = "zombie"
          /\ proc' = [proc EXCEPT ![tzap_pid] = "none"]
          /\ signalled' = signalled \ {tzap_pid}
          /\ tzap_pid' = NoPid
          /\ tpc' = "hup"
       \/ /\ TzapState \in {"none", "foreign"}
          /\ tpc' = "exit" /\ UNCHANGED <<tzap_pid, procVars>>
    /\ UNCHANGED <<connVars, peerVars>>

\* A hang-up of either descriptor: handle_conn() returns 1, which ends main()'s
\* loop without closing the connection or signalling tzap.
HangUp ==
    /\ tpc = "hup"
    /\ tpc' = IF revents \cap {"conn_hup", "dvr_hup"} # {} THEN "exit" ELSE "conn"
    /\ UNCHANGED <<tzap_pid, connVars, peerVars, procVars>>

\* Fault: kill_tzap() is not called.
EndConnNoKill ==
    /\ tpc' = "accept"
    /\ UNCHANGED <<tzap_pid, procVars>>

\* The loop was left with break: kill_tzap() and return 0.
EndConn ==
    /\ tpc' = "accept"
    /\ signalled' = IF tzap_pid # NoPid THEN signalled \cup {tzap_pid} ELSE signalled
    /\ UNCHANGED <<tzap_pid, proc>>

\* run_tzap() with a free identifier.  The previous tzap and its descriptor, if
\* any, are forgotten.  vfork() or open() may fail, which ends the server.
RunTzap ==
    \/ /\ \E p \in Pids :
            /\ proc[p] = "none"
            /\ proc' = [proc EXCEPT ![p] = "tzap"]
            /\ tzap_pid' = p
       /\ \/ tpc' = "dvr" /\ nfds' = 2 /\ stream' = "empty"
          \/ tpc' = "exit" /\ UNCHANGED <<nfds, stream>>
       /\ reqs' = reqs + 1
       /\ forgotten' = IF reqs > 0 THEN forgotten \cup ({tzap_pid} \ {NoPid}) ELSE forgotten
       /\ replaced' = (nfds = 2)
       /\ UNCHANGED signalled
    \/ tpc' = "exit" /\ UNCHANGED <<tzap_pid, nfds, stream, reqs, forgotten, replaced, procVars>>

\* Fault: the end of the data is not told from a line.
ReadConnIgnoresEnd ==
    /\ tpc = "conn"
    /\ IF "conn_in" \in revents /\ peer = "request" /\ reqs < MaxReqs
       THEN RunTzap /\ peer' = "idle" /\ UNCHANGED <<revents, conns>>
       ELSE tpc' = "dvr" /\ UNCHANGED <<tzap_pid, connVars, peerVars, procVars>>

\* The connection's share of a turn: a line starts tzap, a text without its
\* newline is dropped, the end of the data ends the connection, and a read()
\* that fails ends the server.
ReadConn ==
    /\ tpc = "conn"
    /\ \/ /\ "conn_in" \notin revents
          /\ tpc' = "dvr" /\ UNCHANGED <<tzap_pid, connVars, peerVars, procVars>>
       \/ /\ "conn_in" \in revents /\ peer = "request"
          /\ peer' = "idle" /\ UNCHANGED <<revents, conns>>
          /\ \/ reqs < MaxReqs /\ RunTzap
             \/ /\ tpc' = "dvr"
                /\ UNCHANGED <<tzap_pid, nfds, stream, reqs, forgotten, replaced, procVars>>
       \/ /\ "conn_in" \in revents /\ peer = "closed"
          /\ EndConn /\ UNCHANGED <<connVars, peerVars>>
       \/ /\ "conn_in" \in revents
          /\ tpc' = "exit" /\ UNCHANGED <<tzap_pid, connVars, peerVars, procVars>>

\* read() of the stream and write() to the peer: both go through, or one fails
\* (err(), or SIGPIPE when the peer is gone), or the stream ends or the peer
\* takes only part, which ends the connection.
CopyStream ==
    \/ tpc' \in {"poll", "exit"} /\ UNCHANGED <<tzap_pid, procVars>>
    \/ EndConn

\* read() of the stream, and a write() that blocks as long as the peer does not
\* read what was sent before.
CopyOrBlock == CopyStream \/ (tpc' = "write" /\ UNCHANGED <<tzap_pid, procVars>>)

\* The stream's share of a turn.  revents may be older than the descriptor: on a
\* stream without data the read() blocks.
ReadDvr ==
    /\ tpc = "dvr"
    /\ CASE "dvr_in" \notin revents -> tpc' = "poll" /\ UNCHANGED <<tzap_pid, procVars, stream>>
         [] "dvr_in" \in revents /\ stream = "data" -> CopyOrBlock /\ stream' \in {"empty", "data"}
         [] OTHER -> tpc' = "blocked" /\ UNCHANGED <<tzap_pid, procVars, stream>>
    /\ UNCHANGED <<nfds, revents, reqs, forgotten, replaced, peerVars>>

\* Data arrive for the blocked read().
Unblock ==
    /\ tpc = "blocked" /\ stream = "data"
    /\ CopyOrBlock /\ stream' \in {"empty", "data"}
    /\ UNCHANGED <<nfds, revents, reqs, forgotten, replaced, peerVars>>

\* The blocked write() ends.
WriteEnds ==
    /\ tpc = "write"
    /\ CopyStream
    /\ UNCHANGED <<connVars, peerVars>>

Server == Accept \/ Poll \/ ReapTzap \/ HangUp \/ ReadConn \/ ReadDvr \/ Unblock

-----------------------------------------------------------------------------
(* The environment. *)

PeerSends ==
    /\ tpc \notin {"accept", "exit"} /\ peer = "idle"
    /\ peer' \in {"request", "closed"}
    /\ UNCHANGED <<tpc, tzap_pid, connVars, conns, procVars>>

StreamData ==
    /\ stream = "empty" /\ stream' = "data"
    /\ UNCHANGED <<tpc, tzap_pid, nfds, revents, reqs, forgotten, replaced, peerVars, procVars>>

\* tzap ends: it failed, or it was signalled.
TzapDies(p) ==
    /\ proc[p] = "tzap"
    /\ proc' = [proc EXCEPT ![p] = "zombie"]
    /\ UNCHANGED <<tpc, tzap_pid, connVars, peerVars, signalled>>

\* A free identifier goes to some other process, or becomes free again.
OtherProcess(p) ==
    /\ proc[p] \in {"none", "foreign"}
    /\ proc' = [proc EXCEPT ![p] = IF @ = "none" THEN "foreign" ELSE "none"]
    /\ UNCHANGED <<tpc, tzap_pid, connVars, peerVars, signalled>>

Environment == PeerSends \/ StreamData \/ \E p \in Pids : TzapDies(p) \/ OtherProcess(p)

TunerNext == Server \/ WriteEnds \/ AcceptFails \/ Environment

TunerSpec == TunerInit /\ [][TunerNext]_tunerVars

\* Fairness: the server runs, poll() always returns (it has a time-out), an
\* identifier becomes free when run_tzap() needs one, and a write() to a peer
\* that is gone ends; a living peer need not read.
TunerFairSpec ==
    /\ TunerSpec
    /\ WF_tunerVars(Server) /\ WF_tunerVars(peer = "closed" /\ WriteEnds)
    /\ \A p \in Pids : WF_tunerVars(proc[p] = "foreign" /\ OtherProcess(p))

-----------------------------------------------------------------------------
(* Properties. *)

\* kill() and waitpid() always get the identifier of a tzap that was not reaped:
\* it cannot have been recycled, however the death of tzap, the turns of the
\* loop and the change of connections fall together (kill_tzap(), handle_conn()).
PidIsOwnChild == TzapState \in {"unset", "tzap", "zombie"}

\* Between two connections every tzap that keeps the tuner was told to stop,
\* except those whose identifier run_tzap() overwrote when a peer asked again on
\* its connection: these are neither signalled nor reaped ever after.
IdleServerIsSilent ==
    tpc = "accept" => \A p \in Pids : proc[p] = "tzap" => p \in signalled \cup forgotten

\* The poll() loop blocks in a read() of the stream only in the turn that
\* replaced the stream's descriptor: its revents are those of the old one.
BlocksOnlyOnRetune == tpc = "blocked" => replaced

\* A peer that goes away is noticed: the server is back in accept(), or has given
\* up, or stays for ever in a read() of a stream that brings nothing, the one
\* thing it cannot be got out of (and does only after a retune, as above).
CloseIsNoticed == (peer = "closed") ~> (tpc \in {"accept", "exit"} \/ [](tpc = "blocked"))

=============================================================================
