---------------------------- MODULE BeaconWallet ----------------------------
(***************************************************************************)
(* The beacon wallet (beacon_wallet.c) over a Matrix room: the requests of *)
(* a dApp are fetched when the user asks for them, one is shown, approved, *)
(* confirmed, performed and answered in the same room                      *)
(* (tezos_beacon_pair.c, tezos_matrix.c).  A session begins with the code  *)
(* the camera has read.                                                    *)
(*                                                                         *)
(* A message of the room is [kind, id, ops]: a request of the dApp with    *)
(* its number of operations, or a message that no request is read from;    *)
(* its id stands for the message, whatever id the dApp wrote into it: the  *)
(* program compares none with those it has answered.                       *)
(***************************************************************************)
EXTENDS Camera, SequencesExt

CONSTANTS
    MaxOps,         \* bound: operations in a request
    MaxMessages,    \* bound: messages of the dApp
    MaxFetches,     \* bound: requests put on the screen
    MaxRaw,         \* TEZOS_MATRIX_MAX_MESSAGES
    MaxBatch        \* TEZOS_BEACON_MAX_MESSAGES

VARIABLES
    beacon,         \* st->state
    scanned,        \* does it lie on the camera's screens?
    connected,      \* connect_ok
    room,           \* the timeline of the session's room
    since,          \* sync_since, as the messages before it
    pending,        \* pending_permission or pending_operation, or NONE
    responses,      \* history: the responses that reached the room
    issued,         \* history: the messages the dApp has sent
    fetches         \* history: of each request put on the screen, whether
                    \* since had "moved" past it or was "kept"

roomVars == <<room, responses, issued, fetches>>
beaconVars == <<beacon, scanned, connected, since, pending, roomVars>>

Requests == {"permission", "operation"}
Unreadable == {"other", "own"}    \* of another type, or not for this session's key

BeaconInit ==
    /\ CameraInit
    /\ beacon = "closed" /\ scanned = FALSE /\ connected = FALSE
    /\ room = <<>> /\ since = 0 /\ pending = NONE
    /\ responses = <<>> /\ issued = 0 /\ fetches = <<>>

\* beacon_wallet_entry_screen: from the home grid there is no session.
OpenBeacon ==
    /\ Opens("beacon") /\ beacon' = "no_session" /\ scanned' = FALSE
    /\ UNCHANGED <<askVars, connected, since, pending, roomVars, cameraVars>>

\* beacon_wallet_screen_from_peer, for the peer the camera has read; ok is
\* what tezos_beacon_prepare and tezos_beacon_connect return.
Pair(ok) ==
    /\ HandsOver /\ open' = "beacon" /\ scanned' = TRUE
    /\ beacon' = "active" /\ connected' = ok
    /\ UNCHANGED <<popupVars, since, pending, roomVars, cameraVars>>

\* The memset of the next entry, here by the BACK: a session is not resumed.
LeaveBeacon ==
    /\ OnTop("beacon") /\ beacon \in {"no_session", "active"}
    /\ open' = (IF scanned THEN "camera" ELSE NONE)
    /\ beacon' = "closed" /\ scanned' = FALSE /\ connected' = FALSE
    /\ room' = <<>> /\ since' = 0 /\ pending' = NONE
    /\ UNCHANGED <<popupVars, responses, issued, fetches, cameraVars>>

\* The dApp writes to the room at any time.
DAppSends(kind, ops) ==
    /\ connected /\ issued < MaxMessages
    /\ issued' = issued + 1
    /\ room' = Append(room, [kind |-> kind, id |-> issued', ops |-> ops])
    /\ UNCHANGED <<open, popupVars, beacon, scanned, connected, since, pending, responses, fetches,
                   cameraVars>>

\* tezos_matrix_sync: the messages after since, by their places in the room.
Synced == {i \in since + 1 .. Len(room) : i <= since + MaxRaw}

\* tezos_beacon_receive: those of them that are for this session's key.
Fetched ==
    LET decrypted == {i \in Synced : room[i].kind # "own"}
    IN  {i \in decrypted : Cardinality({j \in decrypted : j < i}) < MaxBatch}

\* classify_incoming_message: the first request among them, or NONE.
FirstRequest ==
    LET requests == {i \in Fetched : room[i].kind \in Requests}
    IN  IF requests = {} THEN NONE ELSE room[Min(requests)]

\* What the screen shows after a sync that was answered.
Received(sinceThen) ==
    IF FirstRequest = NONE THEN UNCHANGED <<beacon, pending, fetches>>
    ELSE /\ pending' = FirstRequest /\ beacon' = FirstRequest.kind
         /\ Len(fetches) < MaxFetches /\ fetches' = Append(fetches, sinceThen)

\* CHECK NOW: a sync without an answer changes nothing.  One that names its
\* next_batch moves since past everything, and the requests after the first
\* one are gone; one that names none leaves since, and what it brought will be
\* fetched again.
\* Mutant: the next_batch of a sync is not kept.
CheckNow_KeepsSince(synced) ==
    /\ OnTop("beacon") /\ beacon = "active" /\ connected /\ synced # "none"
    /\ Received(synced) /\ UNCHANGED since
    /\ UNCHANGED <<open, popupVars, scanned, connected, room, responses, issued, cameraVars>>
CheckNow(synced) ==
    /\ OnTop("beacon") /\ beacon = "active" /\ connected
    /\ IF synced = "none" THEN UNCHANGED <<beacon, pending, fetches>> ELSE Received(synced)
    /\ since' = IF synced = "moved" THEN Len(room) ELSE since
    /\ UNCHANGED <<open, popupVars, scanned, connected, room, responses, issued, cameraVars>>

\* DENY: nothing is sent.
Deny ==
    /\ OnTop("beacon") /\ beacon \in Requests /\ beacon' = "active"
    /\ UNCHANGED <<open, popupVars, scanned, connected, since, pending, roomVars, cameraVars>>

\* APPROVE; of the operations only the first is shown and signed.  Which of the
\* fetches it comes from is history.
Operation == [app |-> "beacon", kind |-> pending.kind, request |-> pending.id,
              fetch |-> Len(fetches)]
Approve ==
    /\ OnTop("beacon") /\ beacon \in Requests
    /\ Ask(Operation)
    /\ UNCHANGED <<open, beaconVars, cameraVars>>

\* tezos_beacon_send: the response may get lost, and so may the answer to it.
Respond(delivered, hash) ==
    IF delivered
    THEN /\ responses' = Append(responses, [request |-> pending.id, kind |-> pending.kind,
                                            hash |-> hash, fetch |-> Len(fetches)])
         /\ room' = Append(room, [kind |-> "own", id |-> pending.id, ops |-> 0])
    ELSE UNCHANGED <<responses, room>>

\* perform_permission_confirm: there may be no signer to name a key of.
AcceptPermission(delivered) ==
    /\ open = "beacon" /\ beacon = "permission" /\ beacon' = "result"
    /\ AcceptIgnored
    /\ Respond(delivered, 0)
    /\ UNCHANGED <<open, scanned, connected, since, pending, issued, fetches, cameraVars>>

\* perform_operation_confirm: a response is sent only for an operation whose
\* hash the node has returned.
\* Mutant: a response is sent whatever the node answers.
AcceptOperation_Anyway(outcome, delivered) ==
    /\ open = "beacon" /\ beacon = "operation" /\ beacon' = "result"
    /\ Accept(Operation, outcome)
    /\ Respond(delivered, Len(signed'))
    /\ UNCHANGED <<open, scanned, connected, since, pending, issued, fetches, cameraVars>>
AcceptOperation(outcome, delivered) ==
    /\ open = "beacon" /\ beacon = "operation" /\ beacon' = "result"
    /\ pending.ops = 0 => outcome = "no_signer"
    /\ delivered => outcome = "broadcast"
    /\ Accept(Operation, outcome)
    /\ Respond(delivered, Len(signed'))
    /\ UNCHANGED <<open, scanned, connected, since, pending, issued, fetches, cameraVars>>

\* CANCEL in the popup leaves the request on the screen.
RefuseOperation ==
    /\ open = "beacon" /\ Refuse
    /\ UNCHANGED <<open, beaconVars, cameraVars>>

CloseResult ==
    /\ OnTop("beacon") /\ beacon = "result" /\ beacon' = "active"
    /\ UNCHANGED <<open, popupVars, scanned, connected, since, pending, roomVars, cameraVars>>

BeaconNext ==
    \/ CameraNext /\ UNCHANGED beaconVars
    \/ OpenBeacon \/ LeaveBeacon
    \/ \E ok \in BOOLEAN : Pair(ok)
    \/ \E kind \in Requests \cup {"other"}, ops \in 0 .. MaxOps :
            (ops > 0 => kind = "operation") /\ DAppSends(kind, ops)
    \/ \E synced \in {"none", "moved", "kept"} : CheckNow(synced)
    \/ Deny \/ Approve
    \/ \E delivered \in BOOLEAN : AcceptPermission(delivered)
    \/ \E outcome \in Outcomes, delivered \in BOOLEAN : AcceptOperation(outcome, delivered)
    \/ RefuseOperation \/ CloseResult

-----------------------------------------------------------------------------
\* However syncs, broadcasts and responses get lost, a request is signed for
\* once every time it is put on the screen, and it is put there again, and
\* signed for again, only when the sync that brought it named no next_batch.
SignedOncePerRequest ==
    \A i, j \in DOMAIN signed :
        (i < j /\ signed[i].app = "beacon" /\ signed[j].app = "beacon"
            /\ signed[i].request = signed[j].request) =>
        signed[i].fetch < signed[j].fetch /\ fetches[signed[i].fetch] = "kept"

\* So are the responses: one every time the request is put on the screen, and
\* an operation response names what was signed for that very request, then.
ResponsesAnswer ==
    \A i \in DOMAIN responses :
        /\ \A j \in DOMAIN responses :
              (i < j /\ responses[i].request = responses[j].request) =>
              responses[i].fetch < responses[j].fetch /\ fetches[responses[i].fetch] = "kept"
        /\ responses[i].kind = "operation" =>
              /\ responses[i].hash \in DOMAIN signed
              /\ signed[responses[i].hash].app = "beacon"
              /\ signed[responses[i].hash].request = responses[i].request
              /\ signed[responses[i].hash].fetch = responses[i].fetch
=============================================================================
