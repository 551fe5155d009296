----------------------------- MODULE ClientLink -----------------------------
(***************************************************************************)
(* mcplink: linking the AgentStack router into the MCP clients.  Plan      *)
(* records for every client what it found and what it will do; Apply       *)
(* checks every client against the plan, changes one after the other and   *)
(* on an error undoes its changes in reverse order.  File clients are      *)
(* changed by replacing their file, Codex by its own commands (internal/mcp*)
(* RegisterCodex), which stop working once the caller's context is         *)
(* cancelled.  Other programs may edit a client at any time.               *)
(***************************************************************************)
EXTENDS Integers

CONSTANTS
    N,                \* the clients are 1..N, in the order of their names
    Codex,            \* the client that is changed by commands (0: none)
    InitialConfigs,   \* what the clients may hold at first
    Edited,           \* what another program may write
    MaxEdits,         \* bound: edits of other programs
    MaxPlans          \* bound: plans made

VARIABLES configs, linkPlan, job, edits, plans
linkVars == <<configs, linkPlan, job, edits, plans>>

Client == 1..N
Mode == {"link", "unlink"}

\* The entry agentstack-router of a client: "extended" is AgentStack's command
\* with fields (an environment) that a registration does not keep.
LinkEntry == {"none", "current", "stale", "foreign", "extended", "broken"}
\* Everything else in the file, which is other programs': "long" holds a whole number that
\* a float64 does not, "rounded" the nearest one that it does.
Rest == {"absent", "empty", "kept", "edited", "long", "rounded"}
Config == [entry : LinkEntry, rest : Rest]

ASSUME LinkAssumption ==
    /\ N \in Nat /\ Codex \in 0..N /\ MaxEdits \in Nat /\ MaxPlans \in Nat
    /\ InitialConfigs \subseteq [Client -> Config] /\ Edited \subseteq Config

\* AgentStack sees the registration of Codex and never its file, which is there and kept.
ASSUME CodexAssumption == Codex \in Client => \A config \in InitialConfigs : config[Codex].rest = "kept"

\* registrationOwned; a registration with other fields is not AgentStack's.
Owned(entry) == entry \in {"current", "stale"}
\* strictjson.Decode and parseRegistrationJSON.
Readable(config) == config.entry # "broken"
\* fileDigest covers the whole file; registrationDigest only command and arguments.
Digest(c, config) ==
    IF c # Codex THEN config
    ELSE [config EXCEPT !.entry = IF @ = "extended" THEN "current" ELSE @]

Decide(mode, entry) ==
    IF mode = "link"
    THEN CASE entry = "none" -> "create" [] entry = "current" -> "noop"
           [] entry = "stale" -> "update" [] OTHER -> "conflict"
    ELSE CASE entry = "none" -> "noop" [] Owned(entry) -> "remove" [] OTHER -> "conflict"

\* Mutant of Changed: the file is made anew around the one entry.
ChangedAfresh(mode, config) ==
    [entry |-> IF mode = "link" THEN "current" ELSE "none", rest |-> "empty"]

\* The file is decoded into map[string]any, every number in it into a float64, and encoded
\* again; indentation and the order of the keys are not told apart.
Recoded(rest) ==
    CASE rest = "absent" -> "empty" [] rest = "long" -> "rounded" [] OTHER -> rest

\* What the change makes of a configuration.
Changed(mode, config) ==
    [entry |-> IF mode = "link" THEN "current" ELSE "none", rest |-> Recoded(config.rest)]

Operation(c, mode, config) ==
    [action |-> Decide(mode, config.entry), before |-> Digest(c, config),
     after |-> Changed(mode, config)]

NoPlan == [id |-> 0, mode |-> "link", ops |-> <<>>, valid |-> FALSE]
Idle == [at |-> "idle", todo |-> {}, seen |-> <<>>, undo |-> {}, saved |-> {}, result |-> "none",
         undoFailed |-> FALSE, cancelled |-> FALSE, touched |-> {}, unsure |-> {},
         id |-> 0, mode |-> "link", ops |-> <<>>]

LinkInit ==
    /\ configs \in InitialConfigs
    /\ linkPlan = NoPlan
    /\ job = Idle
    /\ edits = 0
    /\ plans = 0

-----------------------------------------------------------------------------
(* Plan, without the lease: a file that cannot be read or decoded refuses it *)

PlanLinks(mode, clients) ==
    /\ plans < MaxPlans /\ clients # {}
    /\ \A c \in clients : Readable(configs[c])
    /\ linkPlan' = [id |-> plans + 1, mode |-> mode, valid |-> TRUE,
                    ops |-> [c \in clients |-> Operation(c, mode, configs[c])]]
    /\ plans' = plans + 1
    /\ UNCHANGED <<configs, job, edits>>

\* The plan expires, or the executable or the router configuration moves.
PlanLapses ==
    /\ linkPlan.valid
    /\ linkPlan' = [linkPlan EXCEPT !.valid = FALSE]
    /\ UNCHANGED <<configs, job, edits, plans>>

-----------------------------------------------------------------------------
(* Apply *)

Next1(c) == c \in job.todo /\ \A d \in job.todo : c <= d
Op(c) == job.ops[c]

\* An identity, a digest or an expiry that does not match ends Apply here.
StartApply ==
    /\ job.at = "idle" /\ linkPlan.valid
    /\ job' = [Idle EXCEPT !.at = "check", !.todo = DOMAIN linkPlan.ops, !.seen = configs,
                           !.id = linkPlan.id, !.mode = linkPlan.mode, !.ops = linkPlan.ops]
    /\ UNCHANGED <<configs, linkPlan, edits, plans>>

Refuse ==
    /\ job' = [job EXCEPT !.at = "idle", !.todo = {}, !.result = "refused"]
    /\ UNCHANGED <<configs, linkPlan, edits, plans>>

\* The digest of each client that will change must be the reviewed one.
CheckRefuses(c) ==
    /\ job.at = "check" /\ Next1(c)
    /\ \/ Op(c).action = "conflict"
       \/ Op(c).action # "noop" /\ Digest(c, configs[c]) # Op(c).before
    /\ Refuse

CheckPasses(c) ==
    /\ job.at = "check" /\ Next1(c)
    /\ Op(c).action # "conflict"
    /\ Op(c).action = "noop" \/ Digest(c, configs[c]) = Op(c).before
    /\ IF Op(c).action = "noop" \/ c = Codex \/ configs[c].rest = "absent"
       THEN job' = [job EXCEPT !.todo = @ \ {c}, !.seen[c] = configs[c]]
       ELSE job' = [job EXCEPT !.at = "read"]
    /\ UNCHANGED <<configs, linkPlan, edits, plans>>

\* The file is read a second time for the change and the rollback.
ReadBefore(c) ==
    /\ job.at = "read" /\ Next1(c)
    /\ configs[c].rest # "absent"
    /\ job' = [job EXCEPT !.at = "check", !.todo = @ \ {c}, !.seen[c] = configs[c]]
    /\ UNCHANGED <<configs, linkPlan, edits, plans>>

ReadFails == job.at \in {"check", "read"} /\ job.todo # {} /\ Refuse

Checked ==
    /\ job.at = "check" /\ job.todo = {}
    /\ job' = [job EXCEPT !.at = "apply", !.todo = DOMAIN job.ops]
    /\ UNCHANGED <<configs, linkPlan, edits, plans>>

\* Mutant of Failed: the error is returned past the registered rollbacks.
ReturnsAtOnce(j) == [j EXCEPT !.at = "idle", !.undo = {}, !.todo = {}, !.result = "failed"]

\* fail: the registered rollbacks run, if there are any.
Failed(j) == [j EXCEPT !.at = IF j.undo = {} THEN "idle" ELSE "rollback", !.todo = {},
                       !.result = "failed"]
\* The change of c is complete and its rollback is registered.
Registered(j, c) == [j EXCEPT !.at = "apply", !.todo = @ \ {c}, !.undo = @ \cup {c}]

Skip(c) ==
    /\ job.at = "apply" /\ Next1(c) /\ Op(c).action = "noop"
    /\ job' = [job EXCEPT !.todo = @ \ {c}]
    /\ UNCHANGED <<configs, linkPlan, edits, plans>>

\* The change is built again from what was read and must be the reviewed one.
Rebuilt(c) ==
    /\ Readable(job.seen[c])
    /\ Decide(job.mode, job.seen[c].entry) = Op(c).action
    /\ Changed(job.mode, job.seen[c]) = Op(c).after
\* A registration that AgentStack does not own is never copied to a recovery record.
Recordable(c) == job.seen[c].entry = "none" \/ Owned(job.seen[c].entry)

BackUp(c) ==
    /\ job.at = "apply" /\ Next1(c) /\ Op(c).action # "noop"
    /\ c # Codex => Rebuilt(c)
    /\ Recordable(c)
    /\ job' = [job EXCEPT !.at = IF c = Codex THEN "inspect" ELSE "write",
                          !.saved = @ \cup {<<c, job.seen[c].entry>>}]
    /\ UNCHANGED <<configs, linkPlan, edits, plans>>

BackUpFails(c) ==
    /\ job.at = "apply" /\ Next1(c) /\ Op(c).action # "noop"
    /\ job' = Failed(job)
    /\ UNCHANGED <<configs, linkPlan, edits, plans>>

WriteFile(c) ==
    /\ job.at = "write" /\ Next1(c)
    /\ configs' = [configs EXCEPT ![c] = Op(c).after]
    /\ job' = [job EXCEPT !.at = "verify", !.undo = @ \cup {c}]
    /\ UNCHANGED <<linkPlan, edits, plans>>

Verify(c) ==
    /\ job.at = "verify" /\ Next1(c)
    /\ job' = IF configs[c] = Op(c).after THEN Registered(job, c) ELSE Failed(job)
    /\ UNCHANGED <<configs, linkPlan, edits, plans>>

\* applyCodex looks at the registration once more before the first command.
Inspect ==
    /\ job.at = "inspect"
    /\ Digest(Codex, configs[Codex]) = Op(Codex).before
    /\ job' = [job EXCEPT !.at = IF job.mode = "link" THEN "register" ELSE "remove"]
    /\ UNCHANGED <<configs, linkPlan, edits, plans>>

RemoveCodex ==
    /\ job.at = "remove" /\ ~job.cancelled
    /\ configs' = [configs EXCEPT ![Codex].entry = "none"]
    /\ job' = Registered(job, Codex)
    /\ UNCHANGED <<linkPlan, edits, plans>>

\* RegisterCodex, which compares command and arguments only.
Register ==
    /\ job.at = "register" /\ ~job.cancelled
    /\ \/ /\ configs[Codex].entry \in {"current", "extended"}
          /\ job' = Registered(job, Codex)
       \/ /\ configs[Codex].entry = "none"
          /\ job' = [job EXCEPT !.at = "add"]
       \/ /\ configs[Codex].entry = "stale"
          /\ job' = [job EXCEPT !.at = "takeOut"]
       \/ /\ configs[Codex].entry \in {"foreign", "broken"}
          /\ job' = Failed(job)
    /\ UNCHANGED <<configs, linkPlan, edits, plans>>

TakeOut ==
    /\ job.at = "takeOut" /\ ~job.cancelled
    /\ configs' = [configs EXCEPT ![Codex].entry = "none"]
    /\ job' = [job EXCEPT !.at = "addAgain"]
    /\ UNCHANGED <<linkPlan, edits, plans>>

AddCodex ==
    /\ job.at \in {"add", "addAgain"} /\ ~job.cancelled
    /\ configs' = [configs EXCEPT ![Codex].entry = "current"]
    /\ job' = Registered(job, Codex)
    /\ UNCHANGED <<linkPlan, edits, plans>>

\* A command that the cancelled context keeps from starting changes nothing.
AddAgainFails ==
    /\ job.at = "addAgain"
    /\ job' = [job EXCEPT !.at = "putBack"]
    /\ \/ UNCHANGED configs
       \/ ~job.cancelled /\ configs' = [configs EXCEPT ![Codex].entry = "current"]
    /\ UNCHANGED <<linkPlan, edits, plans>>

\* repairCodexRegistration puts the stale registration back, with the same context.
PutBack ==
    /\ job.at = "putBack" /\ ~job.cancelled
    /\ configs' = [configs EXCEPT ![Codex].entry = "stale"]
    /\ job' = Failed(job)
    /\ UNCHANGED <<linkPlan, edits, plans>>

PutBackFails ==
    /\ job.at = "putBack"
    /\ job' = [Failed(job) EXCEPT !.unsure = {Codex}]
    /\ UNCHANGED <<configs, linkPlan, edits, plans>>

\* What the write or the command at hand would make of the client.
Change(c) ==
    CASE job.at = "write" -> Op(c).after
      [] job.at \in {"remove", "takeOut"} -> [configs[c] EXCEPT !.entry = "none"]
      [] job.at = "add" -> [configs[c] EXCEPT !.entry = "current"]
      [] OTHER -> configs[c]

\* A write, a digest or a command fails.  An error can be reported after the change was
\* made: safefile.Replace could not verify the permissions of the new file, a command
\* was killed at its time limit.  The rollback of this client is not yet registered.
CommandFails(c) ==
    /\ job.at \in {"write", "verify", "inspect", "remove", "register", "takeOut", "add"} /\ Next1(c)
    /\ configs' \in {configs, [configs EXCEPT ![c] = Change(c)]}
    /\ job' = [Failed(job) EXCEPT !.unsure = IF configs' = configs THEN {} ELSE {c}]
    /\ UNCHANGED <<linkPlan, edits, plans>>

FinishLinks ==
    /\ job.at = "apply" /\ job.todo = {}
    /\ job' = [job EXCEPT !.at = "idle", !.undo = {}, !.result = "applied"]
    /\ linkPlan' = IF linkPlan.id = job.id THEN NoPlan ELSE linkPlan
    /\ UNCHANGED <<configs, edits, plans>>

-----------------------------------------------------------------------------
(* Rollback, the last change first; its commands have a context of their own *)

LastChanged(c) == c \in job.undo /\ \A d \in job.undo : d <= c
Undone(c) ==
    LET left == job.undo \ {c}
    IN  [job EXCEPT !.undo = left, !.at = IF left = {} THEN "idle" ELSE "rollback"]

RestoreFile(c) ==
    /\ job.at = "rollback" /\ LastChanged(c) /\ c # Codex
    /\ configs' = [configs EXCEPT ![c] = job.seen[c]]
    /\ job' = Undone(c)
    /\ UNCHANGED <<linkPlan, edits, plans>>

\* restoreCodex removes what it finds and adds what was there before the change.
RestoreCodex ==
    /\ job.at = "rollback" /\ LastChanged(Codex) /\ Readable(configs[Codex])
    /\ configs' = [configs EXCEPT ![Codex].entry = job.seen[Codex].entry]
    /\ job' = Undone(Codex)
    /\ UNCHANGED <<linkPlan, edits, plans>>

\* Errors are joined and the other rollbacks go on.
RestoreFails(c) ==
    /\ job.at = "rollback" /\ LastChanged(c)
    /\ \/ UNCHANGED configs
       \/ c = Codex /\ Readable(configs[c]) /\ configs' = [configs EXCEPT ![c].entry = "none"]
    /\ job' = [Undone(c) EXCEPT !.undoFailed = TRUE]
    /\ UNCHANGED <<linkPlan, edits, plans>>

-----------------------------------------------------------------------------
(* The environment *)

\* The user interrupts the command, or its time is over.
Cancel ==
    /\ job.at # "idle" /\ ~job.cancelled
    /\ job' = [job EXCEPT !.cancelled = TRUE]
    /\ UNCHANGED <<configs, linkPlan, edits, plans>>

LinkCrash ==
    /\ job.at # "idle"
    /\ job' = [job EXCEPT !.at = "idle", !.todo = {}, !.undo = {}, !.result = "crashed"]
    /\ UNCHANGED <<configs, linkPlan, edits, plans>>

Edit(c, config) ==
    /\ edits < MaxEdits /\ config # configs[c]
    /\ c = Codex => config.rest = configs[c].rest
    /\ configs' = [configs EXCEPT ![c] = config]
    /\ job' = [job EXCEPT !.touched = @ \cup {c}]
    /\ edits' = edits + 1
    /\ UNCHANGED <<linkPlan, plans>>

ClientStep(c) ==
    \/ CheckRefuses(c) \/ CheckPasses(c) \/ ReadBefore(c) \/ Skip(c) \/ BackUp(c) \/ BackUpFails(c)
    \/ WriteFile(c) \/ Verify(c) \/ RestoreFile(c) \/ RestoreFails(c) \/ CommandFails(c)

CodexStep ==
    \/ Inspect \/ RemoveCodex \/ Register \/ TakeOut \/ AddCodex \/ AddAgainFails
    \/ PutBack \/ PutBackFails \/ RestoreCodex

LinkNext ==
    \/ \E mode \in Mode, clients \in SUBSET Client : PlanLinks(mode, clients)
    \/ PlanLapses \/ StartApply \/ ReadFails \/ Checked \/ FinishLinks
    \/ \E c \in Client : ClientStep(c)
    \/ CodexStep
    \/ Cancel \/ LinkCrash
    \/ \E c \in Client, config \in Edited : Edit(c, config)

LinkSpec == LinkInit /\ [][LinkNext]_linkVars

-----------------------------------------------------------------------------
(* Type invariant: which clients and plans the variables range over.         *)
LinkTypeOK ==
    /\ configs \in [Client -> Config]
    /\ DOMAIN linkPlan.ops \subseteq Client
    /\ job.todo \subseteq Client /\ job.undo \subseteq Client /\ job.touched \subseteq Client
    /\ edits \in 0..MaxEdits /\ plans \in 0..MaxPlans
    /\ job.at = "idle" => job.undo = {}

\* The clients the Apply was to change and nobody else edited (a noop is not checked again).
Untouched(c) == c \in DOMAIN job.ops \ job.touched /\ Op(c).action # "noop"

\* Apply is transactional over the clients no other program edited meanwhile: after a
\* success each of them is as reviewed; after a failure whose rollback met no error
\* each is as it was, but for the one whose own change reported the error.
LinkAllOrNothing ==
    job.at = "idle" =>
        \A c \in Client : Untouched(c) =>
            /\ job.result = "applied" => configs[c] = Op(c).after
            /\ job.result = "failed" /\ ~job.undoFailed /\ c \notin job.unsure =>
                   Digest(c, configs[c]) = Op(c).before

\* AgentStack changes only entries that it owns or that are absent, and of the rest of a
\* client's file nothing but what decoding and encoding it does, unless another program
\* edited that file during the Apply.
ForeignPreserved ==
    [][\A c \in Client :
          configs'[c] # configs[c] =>
              \/ c \in job'.touched
              \/ /\ configs[c].entry = "none" \/ Owned(configs[c].entry)
                 /\ Recoded(configs'[c].rest) = Recoded(configs[c].rest)]_linkVars

\* A client that Apply has changed has a recovery record of the registration it had.
RecordedBeforeChange ==
    \A c \in job.undo \ job.touched : <<c, Op(c).before.entry>> \in job.saved
=============================================================================
