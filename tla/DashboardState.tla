--------------------------- MODULE DashboardState ---------------------------
(***************************************************************************)
(* The dashboard server (server/state.py, server/http.py) over a dataset   *)
(* root that analyses keep writing.  Every endpoint is a coroutine of one  *)
(* event loop and waits only for the body of a POST: requests take turns,  *)
(* and only the analyses, which are other processes, come in between.      *)
(*                                                                         *)
(* Files are told apart by mtime, a clock that ticks with every write to   *)
(* a file behind the signature.  The server may start before the analyses  *)
(* do or while they write.                                                 *)
(***************************************************************************)
EXTENDS ArtifactStore

CONSTANT MaxPosts    \* bound: notes saved through the dashboard

ASSUME PostAssumption == MaxPosts \in Nat

NoPayload == [none |-> TRUE]
Unread == << >>

VARIABLES
    server,    \* what the event loop does next
    request,   \* what the refresh under way is for, "get" otherwise
    waiting,   \* POST requests whose body has not arrived yet
    signature, \* signature of the dataset that is open
    taken,     \* signature computed by the refresh under way, 0 otherwise
    opened,    \* state of the files when the dataset was opened
    missed,    \* that was at start-up, and files changed before it was signed
    memo,      \* <<the artifact index>> as the open dataset remembers it
    payload,   \* the cached payload
    notes,     \* notes saved on disk
    acked      \* notes whose POST was answered

serverVars == <<server, request, waiting, signature, taken, opened, missed, memo, payload, notes, acked>>
vars == <<storeVars, serverVars>>

Payloads == [key : Nat, built : Nat, rows : Tables, notes : Nat]

TypeOK ==
    /\ StoreTypeOK
    /\ server \in {"off", "start", "idle", "sign", "compare", "serve", "clear"}
    /\ request \in {"get", "post"}
    /\ waiting \in 0..MaxPosts
    /\ {signature, taken, opened} \subseteq Nat
    /\ missed \in BOOLEAN
    /\ memo \in {Unread} \union {<<t>> : t \in Tables}
    /\ payload \in Payloads \union {NoPayload}
    /\ notes \in 0..MaxPosts /\ acked \in 0..MaxPosts

Init ==
    /\ StoreInit
    /\ server = "off" /\ request = "get" /\ waiting = 0
    /\ signature = 0 /\ taken = 0 /\ opened = 0 /\ missed = FALSE
    /\ memo = Unread
    /\ payload = NoPayload
    /\ notes = 0 /\ acked = 0

\* validate_dataset_index; a damaged index makes a start or a refresh fail.
IndexValid == ~tableTorn /\ count = RowCount(table)

-----------------------------------------------------------------------------
(* The constructor: the dataset is opened, and signed afterwards.          *)

Open ==
    /\ server = "off"
    /\ IndexValid
    /\ opened' = mtime
    /\ server' = "start"
    /\ UNCHANGED <<storeVars, request, waiting, signature, taken, missed, memo, payload, notes, acked>>

\* The constructor raises; whoever starts the server may try again.
StartFails ==
    /\ server = "off"
    /\ ~IndexValid
    /\ UNCHANGED vars

SignOpened ==
    /\ server = "start"
    /\ signature' = mtime
    /\ missed' = (opened # mtime)
    /\ server' = "idle"
    /\ UNCHANGED <<storeVars, request, waiting, taken, opened, memo, payload, notes, acked>>

-----------------------------------------------------------------------------
(* refresh_dataset_if_needed                                               *)

\* The last check is less than two seconds old.
NotDue(kind) ==
    /\ server = "idle"
    /\ server' = IF kind = "get" THEN "serve" ELSE "idle"
    /\ waiting' = IF kind = "post" THEN waiting + 1 ELSE waiting
    /\ UNCHANGED <<storeVars, request, signature, taken, opened, missed, memo, payload, notes, acked>>

Due(kind) ==
    /\ server = "idle"
    /\ request' = kind
    /\ server' = "sign"
    /\ UNCHANGED <<storeVars, waiting, signature, taken, opened, missed, memo, payload, notes, acked>>

\* Fault: the signature is remembered with what the dataset has read.
SignRemembered ==
    /\ server = "sign"
    /\ taken' = IF memo = Unread THEN mtime ELSE signature
    /\ server' = "compare"
    /\ UNCHANGED <<storeVars, request, waiting, signature, opened, missed, memo, payload, notes, acked>>

Sign ==
    /\ server = "sign"
    /\ taken' = mtime
    /\ server' = "compare"
    /\ UNCHANGED <<storeVars, request, waiting, signature, opened, missed, memo, payload, notes, acked>>

\* Fault: the dataset is opened first and signed afterwards.
CompareSignedLast ==
    /\ server = "compare"
    /\ IF taken = signature
       THEN UNCHANGED <<signature, opened, missed, memo, payload>>
       ELSE /\ IndexValid
            /\ signature' = mtime /\ opened' = taken /\ missed' = FALSE
            /\ memo' = Unread /\ payload' = NoPayload
    /\ server' = IF request = "get" THEN "serve" ELSE "idle"
    /\ waiting' = IF request = "post" THEN waiting + 1 ELSE waiting
    /\ request' = "get" /\ taken' = 0
    /\ UNCHANGED <<storeVars, notes, acked>>

Compare ==
    /\ server = "compare"
    /\ IF taken = signature
       THEN UNCHANGED <<signature, opened, missed, memo, payload>>
       ELSE /\ IndexValid
            /\ signature' = taken
            /\ opened' = mtime
            /\ missed' = FALSE
            /\ memo' = Unread
            /\ payload' = NoPayload
    /\ server' = IF request = "get" THEN "serve" ELSE "idle"
    /\ waiting' = IF request = "post" THEN waiting + 1 ELSE waiting
    /\ request' = "get" /\ taken' = 0
    /\ UNCHANGED <<storeVars, notes, acked>>

RefreshFails ==
    /\ server = "compare"
    /\ taken # signature /\ ~IndexValid
    /\ server' = "idle"
    /\ request' = "get" /\ taken' = 0
    /\ UNCHANGED <<storeVars, waiting, signature, opened, missed, memo, payload, notes, acked>>

-----------------------------------------------------------------------------
(* cached_payload, and a POST with clear_payload_cache                     *)

Hit == payload # NoPayload /\ payload.key = signature

\* The dataset reads the artifact index once, when a payload first needs it.
Serve ==
    /\ server = "serve"
    /\ \/ Hit /\ UNCHANGED <<memo, payload>>
       \/ /\ ~Hit
          /\ memo = Unread => torn = {}
          /\ memo' = IF memo = Unread THEN <<rows>> ELSE memo
          /\ payload' = [key |-> signature, built |-> mtime, rows |-> memo'[1], notes |-> notes]
    /\ server' = "idle"
    /\ UNCHANGED <<storeVars, request, waiting, signature, taken, opened, missed, notes, acked>>

ServeFails ==
    /\ server = "serve"
    /\ ~Hit /\ memo = Unread /\ torn # {}
    /\ server' = "idle"
    /\ UNCHANGED <<storeVars, request, waiting, signature, taken, opened, missed, memo, payload, notes, acked>>

\* Fault: the request stays in the queue.
BodyArrivesAgain ==
    /\ server = "idle" /\ waiting > 0
    /\ notes' = notes + 1
    /\ mtime' = mtime + 1
    /\ server' = "clear"
    /\ UNCHANGED <<pc, snap, lock, rows, torn, runs, table, tableTorn, count, crashes,
                   request, waiting, signature, taken, opened, missed, memo, payload, acked>>

\* The body is there: the handler saves a file under workbench/.
BodyArrives ==
    /\ server = "idle" /\ waiting > 0
    /\ waiting' = waiting - 1
    /\ notes' = notes + 1
    /\ mtime' = mtime + 1
    /\ server' = "clear"
    /\ UNCHANGED <<pc, snap, lock, rows, torn, runs, table, tableTorn, count, crashes,
                   request, signature, taken, opened, missed, memo, payload, acked>>

\* Fault: the signature check is trusted to drop the payload.
ClearNothing ==
    /\ server = "clear"
    /\ acked' = notes
    /\ server' = "idle"
    /\ UNCHANGED <<storeVars, request, waiting, signature, taken, opened, missed, memo, payload, notes>>

ClearPayloadCache ==
    /\ server = "clear"
    /\ payload' = NoPayload
    /\ acked' = notes
    /\ server' = "idle"
    /\ UNCHANGED <<storeVars, request, waiting, signature, taken, opened, missed, memo, notes>>

ServerStep ==
    \/ Open \/ StartFails \/ SignOpened
    \/ NotDue("get") \/ Due("get")
    \/ notes + waiting < MaxPosts /\ (NotDue("post") \/ Due("post"))
    \/ Sign \/ Compare \/ RefreshFails
    \/ Serve \/ ServeFails
    \/ BodyArrives \/ ClearPayloadCache

Next ==
    \/ StoreNext /\ UNCHANGED serverVars
    \/ ServerStep

\* A page polls every five seconds, so requests keep coming and some come two
\* seconds after the last check; the loop finishes what it starts.  Nothing is
\* assumed of the analyses.
Fairness ==
    /\ WF_vars(SignOpened)
    /\ SF_vars(Due("get"))
    /\ WF_vars(Sign) /\ WF_vars(Compare \/ RefreshFails)
    /\ WF_vars(Serve \/ ServeFails) /\ WF_vars(ClearPayloadCache)

Spec == Init /\ [][Next]_vars /\ Fairness

-----------------------------------------------------------------------------
(* Properties                                                              *)

\* A signature that matches the files vouches for what is served: the dataset
\* was opened, and the cached payload built, from the files as they are.  The
\* one gap is a start-up: what is written between the constructor's open and its
\* signature is not seen until something else is written.  Artifact rows count
\* once their run is recorded: only that record moves the signature, so it must
\* come after the row.
SignatureVouches ==
    /\ signature = mtime => opened = mtime \/ missed
    /\ payload # NoPayload /\ payload.key = mtime =>
           /\ payload.built = mtime
           /\ {a \in Analyses : rows[a] > 0} \subseteq runs => payload.rows = rows

\* After a POST is answered, no cached payload lacks what it saved, although
\* the signature is checked only every two seconds.
ReadYourWrites == payload # NoPayload => payload.notes >= acked

\* Once the files stop changing, and as long as the index is consistent, a
\* server that was started has the signature on disk: by SignatureVouches, the
\* dataset that is open is the one on disk unless a start-up missed a change.
CatchesUp == []<>(signature = mtime \/ ~IndexValid \/ server = "off")
=============================================================================
