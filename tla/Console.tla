------------------------------ MODULE Console ------------------------------
(***************************************************************************)
(* The interactive console of a service (src/api/console.rs,               *)
(* src/syscall/console.rs, src/syscall/pty.rs, src/runtime/console.rs and  *)
(* open_console and the reaper of src/runtime/linux.rs): a ticket opens a  *)
(* websocket, the websocket a shell in the namespaces of a replica that    *)
(* may exit, and whose process id may be given to another process, at any  *)
(* step.                                                                   *)
(***************************************************************************)
EXTENDS Naturals, FiniteSets

CONSTANTS
  Conns,        \* websocket connections
  Tickets,      \* tickets, random and never given twice
  Services,
  GlobalLimit,  \* MAX_CONSOLE_SESSIONS
  ServiceLimit, \* MAX_CONSOLE_SESSIONS_PER_SERVICE
  MaxProcs,     \* bound: processes that get the process id, one after the other
  NoTicket

ASSUME ConsoleAssumption ==
  GlobalLimit \in Nat /\ ServiceLimit \in Nat /\ MaxProcs \in Nat /\ NoTicket \notin Tickets

VARIABLES
  tickets,      \* the store: ticket -> its service, and whether its time is over
  minted,       \* tickets handed out
  permits,      \* free permits: of the daemon
  svcPermits,   \* and of each service
  holder,       \* the process that has the replica's process id, 0 if none
  procs,        \* processes that have had it
  tracked,      \* the one the runtime tracks as the replica, 0 if none
  exited,       \* whether the holder has exited and waits to be reaped
  conn,         \* conn[c]: a connection and its shell
  supervisors   \* console_children: connections whose supervisor is registered

processes == <<holder, procs, tracked, exited>>
limits == <<permits, svcPermits>>
consoleVars == <<tickets, minted, limits, processes, conn, supervisors>>

NoConn == [at |-> "idle", ticket |-> NoTicket, svc |-> NoTicket, cloned |-> 0, start |-> 0,
           stale |-> FALSE, fds |-> {}, shell |-> "none", sup |-> "none", open |-> TRUE,
           held |-> FALSE, orphan |-> FALSE]

ConsoleInit ==
  /\ tickets = <<>> /\ minted = {}
  /\ permits = GlobalLimit /\ svcPermits = [s \in Services |-> ServiceLimit]
  /\ holder = 1 /\ procs = 1 /\ tracked = 1 /\ exited = FALSE
  /\ conn = [c \in Conns |-> NoConn] /\ supervisors = {}

ConnAt(c, where) == conn[c].at = where
Go(c, where) == conn' = [conn EXCEPT ![c].at = where]

-----------------------------------------------------------------------------
(* Tickets *)
prune_expired(ts) == [t \in {u \in DOMAIN ts : ~ts[u].expired} |-> ts[t]]

(* Only a replica that runs gets a ticket.  Which new ticket it is, and     *)
(* below which new connection, makes no difference.                         *)
create_console_ticket(t, s) ==
  /\ t \notin minted /\ t = (CHOOSE u \in Tickets \ minted : TRUE) /\ tracked # 0
  /\ minted' = minted \cup {t}
  /\ LET alive == prune_expired(tickets) IN
     tickets' = [u \in DOMAIN alive \cup {t} |-> IF u = t THEN [svc |-> s, expired |-> FALSE] ELSE alive[u]]
  /\ UNCHANGED <<limits, processes, conn, supervisors>>

TicketExpires(t) ==
  /\ t \in DOMAIN tickets /\ ~tickets[t].expired
  /\ tickets' = [tickets EXCEPT ![t].expired = TRUE]
  /\ UNCHANGED <<minted, limits, processes, conn, supervisors>>

Without(t) == [u \in DOMAIN tickets \ {t} |-> tickets[u]]

(* The ticket is used up before it is looked at. *)
consume_ticket(c, t, s) ==
  /\ ConnAt(c, "idle") /\ c = (CHOOSE d \in Conns : ConnAt(d, "idle")) /\ t \in DOMAIN tickets
  /\ tickets' = Without(t)
  /\ conn' = [conn EXCEPT ![c].at = IF tickets[t].svc = s /\ ~tickets[t].expired THEN "ticket" ELSE "done",
                          ![c].ticket = t, ![c].svc = s]
  /\ UNCHANGED <<minted, limits, processes, supervisors>>

(* One permit of the daemon, then one of the service; without the second    *)
(* the first is given back.                                                 *)
console_ws(c) ==
  \/ /\ ConnAt(c, "ticket")
     /\ IF permits = 0 THEN Go(c, "done") /\ UNCHANGED permits
        ELSE Go(c, "service") /\ permits' = permits - 1
     /\ UNCHANGED <<tickets, minted, svcPermits, processes, supervisors>>
  \/ /\ ConnAt(c, "service")
     /\ LET s == conn[c].svc IN
        IF svcPermits[s] = 0 THEN Go(c, "done") /\ permits' = permits + 1 /\ UNCHANGED svcPermits
        ELSE Go(c, "open") /\ svcPermits' = [svcPermits EXCEPT ![s] = @ - 1] /\ UNCHANGED permits
     /\ UNCHANGED <<tickets, minted, processes, supervisors>>

(* The end of the connection gives both permits back. *)
EndConn(c) ==
  /\ Go(c, "done")
  /\ permits' = permits + 1 /\ svcPermits' = [svcPermits EXCEPT ![conn[c].svc] = @ + 1]

-----------------------------------------------------------------------------
(* The launch *)

(* The tracked process is noted under the lock, its start time after it. *)
open_console(c) ==
  /\ ConnAt(c, "open")
  /\ IF tracked = 0 THEN EndConn(c)
     ELSE conn' = [conn EXCEPT ![c].at = "cloned", ![c].cloned = tracked] /\ UNCHANGED limits
  /\ UNCHANGED <<tickets, minted, processes, supervisors>>

read_process_start_time(c) ==
  /\ ConnAt(c, "cloned")
  /\ IF holder = 0 THEN EndConn(c)
     ELSE /\ conn' = [conn EXCEPT ![c].at = "pty", ![c].start = holder, ![c].stale = (holder # conn[c].cloned)]
          /\ UNCHANGED limits
  /\ UNCHANGED <<tickets, minted, processes, supervisors>>

open_pty(c) ==
  /\ ConnAt(c, "pty")
  /\ \/ Go(c, "fds") /\ UNCHANGED limits
     \/ EndConn(c)
  /\ UNCHANGED <<tickets, minted, processes, supervisors>>

(* One file after the other, of whoever has the process id by then. *)
open_namespace_fds(c) ==
  /\ ConnAt(c, "fds")
  /\ \/ holder # 0 /\ ~exited
        /\ conn' = [conn EXCEPT ![c].fds = @ \cup {holder}] /\ UNCHANGED limits
     \/ conn[c].fds # {} /\ Go(c, "root") /\ UNCHANGED limits
     \/ holder = 0 /\ EndConn(c)
  /\ UNCHANGED <<tickets, minted, processes, supervisors>>

open_target_root(c) ==
  /\ ConnAt(c, "root")
  /\ IF holder = 0 \/ exited THEN EndConn(c)
     ELSE conn' = [conn EXCEPT ![c].at = "fork", ![c].fds = @ \cup {holder}] /\ UNCHANGED limits
  /\ UNCHANGED <<tickets, minted, processes, supervisors>>

(* Slip: the start time is not compared again. *)
SameProcess_Assumed(c) == holder # 0

SameProcess(c) == holder = conn[c].start

(* The child compares, joins the namespaces, forks the shell, which enters  *)
(* the root, takes the terminal, gives up its privileges and executes; any  *)
(* stage may fail and is reported, and the supervisor is reaped.  Nothing   *)
(* can be forked into the namespaces of a process that has exited.          *)
child_exec_console(c) ==
  /\ ConnAt(c, "fork")
  /\ \/ /\ SameProcess(c) /\ (holder \in conn[c].fds => ~exited)
        /\ conn' = [conn EXCEPT ![c].at = "shell", ![c].shell = "runs", ![c].sup = "runs"]
        /\ UNCHANGED limits
     \/ EndConn(c)
  /\ UNCHANGED <<tickets, minted, processes, supervisors>>

(* Outcome and shell are known, both processes are put into the cgroup, and *)
(* the supervisor is registered with the runtime.                           *)
spawn_console_process(c) ==
  /\ ConnAt(c, "shell") /\ Go(c, "bridge")
  /\ supervisors' = supervisors \cup {c}
  /\ UNCHANGED <<tickets, minted, limits, processes>>

-----------------------------------------------------------------------------
(* The session.  That the socket has closed shows once the bridge reads it. *)
SocketCloses(c) ==
  /\ conn[c].at \in {"bridge", "write", "ended"} /\ conn[c].open
  /\ conn' = [conn EXCEPT ![c].open = FALSE]
  /\ UNCHANGED <<tickets, minted, limits, processes, supervisors>>

(* A shell that ends is reaped by its supervisor, which exits; a process it *)
(* left in the background, or another supervisor that inherited it, may     *)
(* still hold the terminal.                                                 *)
ShellExits(c) ==
  /\ conn[c].shell = "runs"
  /\ \E held \in BOOLEAN :
       conn' = [conn EXCEPT ![c].shell = "gone", ![c].held = held,
                            ![c].sup = IF conn[c].sup = "runs" THEN "exited" ELSE @]
  /\ UNCHANGED <<tickets, minted, limits, processes, supervisors>>

TerminalReleased(c) ==
  /\ conn[c].held /\ conn' = [conn EXCEPT ![c].held = FALSE]
  /\ UNCHANGED <<tickets, minted, limits, processes, supervisors>>

(* The supervisor is in the replica's cgroup, where the kernel may choose   *)
(* it when memory runs out, before its shell.                               *)
SupervisorDies(c) ==
  /\ conn[c].shell = "runs" /\ conn[c].sup = "runs"
  /\ conn' = [conn EXCEPT ![c].sup = "exited", ![c].orphan = TRUE]
  /\ UNCHANGED <<tickets, minted, limits, processes, supervisors>>

(* The terminal has ended once nobody holds its other side. *)
Hangup(c) == conn[c].shell = "gone" /\ ~conn[c].held

(* Bytes go both ways.  While the bridge writes them, to a program that may *)
(* not read its terminal or to a client that may not read its socket, it    *)
(* looks at neither side.                                                   *)
ConsoleWrite(c) ==
  /\ \/ ConnAt(c, "bridge") /\ conn[c].open /\ Go(c, "write")
     \/ ConnAt(c, "write") /\ \E to \in {"bridge", "grace"} : Go(c, to)
  /\ UNCHANGED <<tickets, minted, limits, processes, supervisors>>

(* When a side has ended, the shell is asked to exit. *)
bridge_console_socket(c) ==
  /\ ConnAt(c, "bridge") /\ (~conn[c].open \/ Hangup(c))
  /\ Go(c, "grace")
  /\ UNCHANGED <<tickets, minted, limits, processes, supervisors>>

deregister(c) == supervisors' = supervisors \ {c}

(* The reaper polls; the supervisor may have been reaped by the backstop.   *)
try_wait(c) ==
  /\ ConnAt(c, "grace") /\ conn[c].sup \in {"exited", "reaped"}
  /\ conn' = [conn EXCEPT ![c].at = "ended", ![c].sup = "reaped"]
  /\ deregister(c)
  /\ UNCHANGED <<tickets, minted, limits, processes>>

(* Slip: after the grace period it waits, but does not kill. *)
reap_Patient(c) ==
  /\ ConnAt(c, "grace") /\ conn[c].sup = "runs"
  /\ Go(c, "wait")
  /\ UNCHANGED <<tickets, minted, limits, processes, supervisors>>

(* A shell that ignores the request is killed, and its supervisor waited    *)
(* for.  It is not killed when the supervisor was gone first (try_wait).    *)
reap(c) ==
  /\ ConnAt(c, "grace") /\ conn[c].sup = "runs"
  /\ conn' = [conn EXCEPT ![c].at = "wait", ![c].shell = "gone", ![c].sup = "exited"]
  /\ UNCHANGED <<tickets, minted, limits, processes, supervisors>>

wait(c) ==
  /\ ConnAt(c, "wait") /\ conn[c].sup \in {"exited", "reaped"}
  /\ conn' = [conn EXCEPT ![c].at = "ended", ![c].sup = "reaped"]
  /\ deregister(c)
  /\ UNCHANGED <<tickets, minted, limits, processes>>

(* The last frames are sent, to a client that may not read them. *)
handle_console_socket(c) ==
  /\ ConnAt(c, "ended") /\ EndConn(c)
  /\ UNCHANGED <<tickets, minted, processes, supervisors>>

(* The backstop, whenever the runtime looks after its children. *)
reap_console_children ==
  /\ \E c \in supervisors : conn[c].sup # "runs"
  /\ conn' = [c \in Conns |-> IF c \in supervisors /\ conn[c].sup = "exited"
                              THEN [conn[c] EXCEPT !.sup = "reaped"] ELSE conn[c]]
  /\ supervisors' = {c \in supervisors : conn[c].sup = "runs"}
  /\ UNCHANGED <<tickets, minted, limits, processes>>

-----------------------------------------------------------------------------
(* The replica.  Its exit takes every process in its namespaces along. *)
ReplicaExits ==
  /\ holder = tracked /\ tracked # 0 /\ ~exited
  /\ exited' = TRUE
  /\ conn' = [c \in Conns |-> IF conn[c].shell = "runs" /\ holder \in conn[c].fds
                              THEN [conn[c] EXCEPT !.shell = "gone", !.sup = IF @ = "runs" THEN "exited" ELSE @]
                              ELSE conn[c]]
  /\ UNCHANGED <<tickets, minted, limits, holder, procs, tracked, supervisors>>

reap_exited_children ==
  /\ exited /\ exited' = FALSE /\ holder' = 0 /\ tracked' = 0
  /\ UNCHANGED <<tickets, minted, limits, procs, conn, supervisors>>

(* Another process gets the process id: a stranger, or the next replica.    *)
PidTaken(following) ==
  /\ holder = 0 /\ procs < MaxProcs
  /\ procs' = procs + 1 /\ holder' = procs + 1
  /\ tracked' = IF following THEN procs + 1 ELSE tracked
  /\ UNCHANGED <<tickets, minted, limits, exited, conn, supervisors>>

StrangerEnds ==
  /\ holder # 0 /\ holder # tracked /\ holder' = 0
  /\ UNCHANGED <<tickets, minted, limits, procs, tracked, exited, conn, supervisors>>

-----------------------------------------------------------------------------
Serve(c) ==
  \/ console_ws(c) \/ open_console(c) \/ read_process_start_time(c) \/ open_pty(c)
  \/ open_namespace_fds(c) \/ open_target_root(c) \/ child_exec_console(c) \/ spawn_console_process(c)

Teardown(c) ==
  bridge_console_socket(c) \/ try_wait(c) \/ reap(c) \/ wait(c) \/ handle_console_socket(c)

ConsoleNext ==
  \/ \E t \in Tickets : (\E s \in Services : create_console_ticket(t, s)) \/ TicketExpires(t)
  \/ \E c \in Conns : \/ \E t \in Tickets, s \in Services : consume_ticket(c, t, s)
                      \/ Serve(c) \/ ConsoleWrite(c) \/ Teardown(c)
                      \/ SocketCloses(c) \/ ShellExits(c) \/ TerminalReleased(c) \/ SupervisorDies(c)
  \/ reap_console_children
  \/ ReplicaExits \/ reap_exited_children \/ (\E following \in BOOLEAN : PidTaken(following)) \/ StrangerEnds

(* Waiting on the program at the terminal, or on the client. *)
Stuck(c) == ConnAt(c, "write") \/ (ConnAt(c, "ended") /\ conn[c].open)

(* The task of a connection is scheduled, its select takes a branch that is *)
(* ready again and again in the end, and the grace period ends.  No write   *)
(* need end.                                                                *)
ConsoleFairness ==
  \A c \in Conns : SF_consoleVars(bridge_console_socket(c)) /\ WF_consoleVars(~Stuck(c) /\ Teardown(c))

ConsoleSpec == ConsoleInit /\ [][ConsoleNext]_consoleVars /\ ConsoleFairness

-----------------------------------------------------------------------------
Entered(c) == conn[c].at \notin {"idle", "ticket", "service", "done"}

(* "single-use ticket": no two connections get in with one ticket, and the  *)
(* sessions never exceed the limits, whatever order tickets and permits are *)
(* taken in.                                                                *)
TicketOpensOnce ==
  /\ \A c, d \in Conns : conn[c].at # "idle" /\ conn[c].ticket = conn[d].ticket => c = d
  /\ \A s \in Services : Cardinality({c \in Conns : Entered(c) /\ conn[c].svc = s}) <= ServiceLimit

(* "a recycled pid will have a different starttime, so the console aborts   *)
(* rather than joining an unrelated process": a shell has all its           *)
(* namespaces and its root from one process, the tracked replica, unless    *)
(* that was gone already when its start time was read.                      *)
ShellInItsReplica ==
  \A c \in Conns :
    conn[c].shell = "runs" =>
      conn[c].fds = {conn[c].start} /\ (conn[c].stale \/ conn[c].start = conn[c].cloned)

(* A session ends when its socket closes, or its shell does and nobody else *)
(* holds the terminal, also with a shell that ignores every request: no     *)
(* zombie is left, the permits are back, and the shell is gone unless its   *)
(* supervisor died before it.  Only a peer that never reads again, program  *)
(* or client, keeps the session.                                            *)
ConsolesEnd ==
  \A c \in Conns :
    \/ <>[]Stuck(c)
    \/ (ConnAt(c, "bridge") /\ (~conn[c].open \/ Hangup(c)))
         ~> (ConnAt(c, "done") /\ conn[c].sup = "reaped" /\ (conn[c].shell = "gone" \/ conn[c].orphan))
=============================================================================
