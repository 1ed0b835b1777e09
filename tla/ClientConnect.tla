--------------------------- MODULE ClientConnect ----------------------------
(***************************************************************************)
(* How a client obtains its transport: connect_via_session_http_* and      *)
(* connect_from_session of src/src/native_client.rs,                       *)
(* connect_via_sdp_http_with_options and connect_webrtc_from_session of    *)
(* src/src/web_client.rs, with SessionCreateResponse::authentication of    *)
(* src/src/session_security.rs.                                            *)
(*                                                                         *)
(* Each await of the browser's flow is a step: time passes there, the      *)
(* peer and its channel change, and the application may drop the future.   *)
(* Time is counted in polls of await_ice_complete.  Lengths are abstracted *)
(* to whether they are within their limits.                                *)
(***************************************************************************)
EXTENDS Naturals

CONSTANTS
    ICE_GATHER_TIMEOUT,
    DATA_CHANNEL_OPEN_TIMEOUT,
    MaxLifetime             \* bound on the lifetime of a connect token

ASSUME TimeAssumption ==
    /\ ICE_GATHER_TIMEOUT \in Nat
    /\ DATA_CHANNEL_OPEN_TIMEOUT \in Nat
    /\ MaxLifetime \in Nat

VARIABLES
    stage,          \* start, session, authenticate, offer, ice, post, remote,
                    \* channel, finish, done, failed or dropped
    opts,           \* what the application asked for
    reply,          \* the session response
    lifetime,       \* what is left of the connect token; 0 when it has expired
    waited,         \* how long this wait has lasted
    ice,            \* [complete, candidates] of the RTC peer
    data_channel,   \* connecting, open or closed
    peer,           \* none, open or closed
    transport       \* none, secure or unsecure

connectVars ==
    <<stage, opts, reply, lifetime, waited, ice, data_channel, peer, transport>>

(* The protocol the application plays is "p".  A request names a protocol    *)
(* and a service (which stands for the match, too) or not; "" is an empty or *)
(* absent field.                                                             *)
Request == [protocol_id : {"", "p", "q"}, service : {"", "s"},
            require_secure : BOOLEAN, valid : BOOLEAN]

Options == [platform : {"native", "web"}, valid : BOOLEAN,
            require_secure : BOOLEAN, request : Request]

(* A secure envelope.  Its connect token is decodable or not, and bound to   *)
(* this client, endpoint and expiry or not.  A response carries one or none. *)
Envelope == [protocol_id : {"p", "q"}, service : {"s", "t"},
             decodes : BOOLEAN, bound : BOOLEAN]

NoReply == [arrived |-> FALSE]
Reply == [arrived : {TRUE}, valid : BOOLEAN, address : BOOLEAN,
          security : {{}} \cup {{e} : e \in Envelope}]

(* The application starts over HTTP, or hands in a response it obtained      *)
(* itself (connect_from_session, connect_webrtc_from_session).               *)
ConnectInit ==
    /\ opts \in Options
    /\ \/ stage = "start" /\ reply = NoReply
       \/ stage = "authenticate" /\ reply \in Reply
    /\ lifetime \in 0..MaxLifetime
    /\ waited = 0
    /\ ice = [complete |-> FALSE, candidates |-> FALSE]
    /\ data_channel = "connecting" /\ peer = "none" /\ transport = "none"

-----------------------------------------------------------------------------
(* SessionCreateRequest and SessionCreateResponse *)

requests_authentication(request) ==
    \/ request.require_secure
    \/ request.protocol_id # ""
    \/ request.service # ""

(* What is sent: require_secure of the options joins the request's own. *)
Sent(o) == [o.request EXCEPT
               !.require_secure = o.require_secure \/ o.request.require_secure]

(* Whether the request may be sent at all. *)
RequestOk(o) ==
    /\ requests_authentication(Sent(o)) => o.request.protocol_id \in {"", "p"}
    /\ o.request.valid

(* SessionCreateResponse::authentication. *)
authentication(r, o, left) ==
    IF ~o.request.valid \/ ~r.valid THEN "error"
    ELSE IF r.security = {}
         THEN IF o.require_secure \/ requests_authentication(o.request)
              THEN "error" ELSE "unsecure"
    ELSE IF /\ \A e \in r.security :
                  /\ e.protocol_id = "p"
                  /\ o.request.service \in {"", e.service}
                  /\ e.decodes /\ e.bound
            /\ o.request.protocol_id \in {"", "p"}
            /\ left > 0
         THEN "secure" ELSE "error"

-----------------------------------------------------------------------------
(* Leaving the attempt *)

(* Mutant: the peer is not closed on the way out. *)
LeaveOpen(where) ==
    /\ stage' = where
    /\ UNCHANGED peer

(* The future ends without a transport: PeerGuard closes the peer. *)
Leave(where) ==
    /\ stage' = where
    /\ peer' = IF peer = "open" THEN "closed" ELSE peer

Fail ==
    /\ Leave("failed")
    /\ UNCHANGED <<opts, reply, lifetime, waited, ice, data_channel, transport>>

Goto(step) ==
    /\ stage' = step /\ waited' = 0
    /\ UNCHANGED <<opts, reply, lifetime, ice, data_channel, peer, transport>>

Awaiting == stage \in {"session", "offer", "ice", "post", "remote", "channel"}

(* The application drops the future at an await. *)
Cancel ==
    /\ Awaiting
    /\ Leave("dropped")
    /\ UNCHANGED <<opts, reply, lifetime, waited, ice, data_channel, transport>>

(* Time passes while the client waits for a request or a promise. *)
TimePasses ==
    /\ stage \in {"session", "offer", "post", "remote"}
    /\ lifetime > 0
    /\ lifetime' = lifetime - 1
    /\ UNCHANGED <<stage, opts, reply, waited, ice, data_channel, peer, transport>>

-----------------------------------------------------------------------------
(* The session *)

(* options.validate (browser) and the request body, before any HTTP. *)
Validate ==
    /\ stage = "start"
    /\ IF (opts.platform = "web" => opts.valid) /\ RequestOk(opts)
       THEN Goto("session") ELSE Fail

(* decode_json_response*: a status, a body that is too large or not a        *)
(* session response; or a response.                                          *)
decode_json_response ==
    \/ Fail
    \/ /\ reply' \in Reply
       /\ stage' = "authenticate" /\ waited' = 0
       /\ UNCHANGED <<opts, lifetime, ice, data_channel, peer, transport>>

(* The session request fails, or its response is decoded. *)
create_session == stage = "session" /\ (Fail \/ decode_json_response)

(* The native client looks at the address, then at the token, and is done    *)
(* unless it cannot bind its socket.                                         *)
connect_from_session ==
    /\ stage = "authenticate" /\ opts.platform = "native"
    /\ LET verdict == authentication(reply, opts, lifetime) IN
       \/ Fail
       \/ /\ reply.address /\ verdict # "error"
          /\ transport' = verdict
          /\ stage' = "done"
          /\ UNCHANGED <<opts, reply, lifetime, waited, ice, data_channel, peer>>

(* The browser validates its options, then does the same; it then creates    *)
(* the peer and its data channel, which may fail too.                        *)
Authenticate ==
    /\ stage = "authenticate" /\ opts.platform = "web"
    /\ \/ Fail
       \/ /\ opts.valid /\ reply.address
          /\ authentication(reply, opts, lifetime) # "error"
          /\ peer' = "open"
          /\ stage' = "offer"
          /\ UNCHANGED <<opts, reply, lifetime, waited, ice, data_channel, transport>>

-----------------------------------------------------------------------------
(* The browser's negotiation *)

(* create_offer and set_local_description; then ICE gathering begins. *)
CreateOffer ==
    /\ stage = "offer"
    /\ Goto("ice") \/ Fail

(* The RTC peer gathers candidates. *)
Gathers ==
    /\ peer = "open" /\ stage = "ice" /\ ~ice.complete
    /\ ice' \in {[ice EXCEPT !.candidates = TRUE], [ice EXCEPT !.complete = TRUE]}
    /\ UNCHANGED <<stage, opts, reply, lifetime, waited, data_channel, peer, transport>>

Poll ==
    /\ waited' = waited + 1
    /\ lifetime' = IF lifetime > 0 THEN lifetime - 1 ELSE 0
    /\ UNCHANGED <<stage, opts, reply, ice, data_channel, peer, transport>>

(* Mutant: the timeout is only looked at once a candidate is there. *)
await_ice_complete_forever ==
    /\ stage = "ice"
    /\ IF ice.complete THEN Goto("post") \/ Fail
       ELSE IF ice.candidates /\ waited > ICE_GATHER_TIMEOUT THEN Goto("post") \/ Fail
       ELSE /\ UNCHANGED <<stage, opts, reply, ice, data_channel, peer, transport, waited>>
            /\ lifetime' = IF lifetime > 0 THEN lifetime - 1 ELSE 0

(* await_ice_complete: a gathering that has timed out is good enough when    *)
(* the local description has a candidate.  The local description may be      *)
(* missing or empty after all.                                               *)
await_ice_complete ==
    /\ stage = "ice"
    /\ IF ice.complete \/ (waited > ICE_GATHER_TIMEOUT /\ ice.candidates)
       THEN Goto("post") \/ Fail
       ELSE IF waited > ICE_GATHER_TIMEOUT THEN Fail
       ELSE Poll

(* post_offer fails, answers for another client, or answers. *)
PostOffer ==
    /\ stage = "post"
    /\ Goto("remote") \/ Fail

set_remote_description ==
    /\ stage = "remote"
    /\ Goto("channel") \/ Fail

(* The data channel opens or closes while nobody looks. *)
ChannelMoves ==
    /\ peer = "open" /\ stage \in {"remote", "channel", "done"}
    /\ \/ data_channel = "connecting" /\ data_channel' \in {"open", "closed"}
       \/ data_channel = "open" /\ data_channel' = "closed"
    /\ UNCHANGED <<stage, opts, reply, lifetime, waited, ice, peer, transport>>

await_data_channel_open ==
    /\ stage = "channel"
    /\ IF data_channel = "open" THEN Goto("finish")
       ELSE IF data_channel = "closed" \/ waited > DATA_CHANNEL_OPEN_TIMEOUT THEN Fail
       ELSE Poll

(* Mutant: the verdict from before the negotiation is kept. *)
FinishUnchecked ==
    /\ stage = "finish"
    /\ stage' = "done"
    /\ transport' = IF reply.security = {} THEN "unsecure" ELSE "secure"
    /\ UNCHANGED <<opts, reply, lifetime, waited, ice, data_channel, peer>>

(* The token is parsed again; the netcode client may refuse it. *)
Finish ==
    /\ stage = "finish"
    /\ \/ Fail
       \/ /\ authentication(reply, opts, lifetime) # "error"
          /\ transport' = authentication(reply, opts, lifetime)
          /\ stage' = "done"
          /\ UNCHANGED <<opts, reply, lifetime, waited, ice, data_channel, peer>>

(* The application drops the transport: the channel and the peer close. *)
DropTransport ==
    /\ stage = "done"
    /\ Leave("dropped")
    /\ transport' = "none"
    /\ data_channel' = IF peer = "open" THEN "closed" ELSE data_channel
    /\ UNCHANGED <<opts, reply, lifetime, waited, ice>>

Ended == stage \in {"failed", "dropped"} /\ UNCHANGED connectVars

Step ==
    \/ Validate \/ create_session \/ connect_from_session \/ Authenticate
    \/ CreateOffer \/ await_ice_complete \/ PostOffer
    \/ set_remote_description \/ await_data_channel_open \/ Finish

ConnectNext ==
    \/ Step
    \/ Cancel \/ TimePasses \/ Gathers \/ ChannelMoves
    \/ DropTransport \/ Ended

(* HTTP requests and browser promises settle, and the polls' timers fire. *)
ConnectSpec == ConnectInit /\ [][ConnectNext]_connectVars /\ WF_connectVars(Step)

-----------------------------------------------------------------------------
(* What a transport is built with was fit at that moment.  A secure one has  *)
(* a connect token of the named service that had not expired when the        *)
(* negotiation was over, however long the requests, ICE and the channel      *)
(* took; an unsecure one only exists where the server sent no envelope and   *)
(* neither the options nor the request asked for authentication.             *)
AuthenticatedAtUse ==
    [][transport # transport' /\ transport' # "none" =>
          IF transport' = "secure"
          THEN /\ lifetime > 0
               /\ \E e \in reply.security : opts.request.service \in {"", e.service}
          ELSE /\ reply.security = {}
               /\ ~opts.require_secure
               /\ ~requests_authentication(opts.request)]_connectVars

(* No RTC peer outlives its attempt: when an attempt has failed or was       *)
(* dropped at any await, or its transport was dropped, the peer is closed;   *)
(* and none is ever created for a response that does not authenticate.       *)
PeerNotLeaked ==
    /\ peer = "open" =>
          /\ stage \notin {"start", "session", "authenticate", "failed", "dropped"}
          /\ reply.valid /\ reply.address
    /\ transport # "none" /\ opts.platform = "web" => peer = "open"

(* Every attempt ends, with a transport or without: a peer that gathers no   *)
(* candidate and a channel that never opens are given up.                    *)
AttemptEnds == <>(stage \in {"done", "failed", "dropped"})
=============================================================================
