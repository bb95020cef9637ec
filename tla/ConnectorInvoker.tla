---------------------------- MODULE ConnectorInvoker --------------------------
(***************************************************************************)
(* integration/registry.py and execution/connector_invoker.py: connectors  *)
(* are registered and validated when the integration module starts, then   *)
(* any thread invokes a capability: the connector that provides it is made *)
(* and connected on first use and kept.  All connectors are filesystem     *)
(* connectors of one root.  An instance is known by the caller that made   *)
(* it.  What else changes the disk is up to the module that extends this   *)
(* one.                                                                    *)
(***************************************************************************)
EXTENDS FilesystemConnector

CONSTANTS
  Callers, \* threads that call invoke()
  Requests \* [capability, path, text] they may ask for

\* A text to write is none of what else there can be at a path.
ASSUME RequestsAssumption == \A r \in Requests : r.text \notin {Dir, Locked, Outside}

VARIABLES
  discovered, \* [id, dir, provides, loads]: manifests found, in order
  registered, \* _connectors, in order
  integration,\* "registering" | "ready" | "failed"
  connected,  \* <<caller, id>>: instances whose connect() succeeded
  cache,      \* _connected: connector id -> the caller that made the instance
  calls       \* calls[c]: [at, request, id, made, response, steady]

registry == <<discovered, registered, integration>>
invoker == <<registry, connected, cache, calls>>

NoCall == [at |-> "none", request |-> None, id |-> None, made |-> None, response |-> None, steady |-> TRUE]

InvokerInit(manifests) ==
  /\ discovered = manifests
  /\ registered = <<>>
  /\ integration = "registering"
  /\ connected = {} /\ cache = <<>>
  /\ calls = [c \in Callers |-> NoCall]

(* IntegrationModule.init: register what was discovered, then validate.    *)

SameId(manifest) == {i \in 1..Len(registered) : registered[i].id = manifest.id}

Duplicate(manifest) == \E i \in SameId(manifest) : registered[i].dir # manifest.dir

\* A directory found twice is registered once, in its first place.
Register ==
  /\ integration = "registering" /\ discovered # <<>>
  /\ discovered' = Tail(discovered)
  /\ LET manifest == Head(discovered) IN
       IF Duplicate(manifest) THEN integration' = "failed" /\ UNCHANGED registered
       ELSE /\ registered' = IF SameId(manifest) = {} THEN Append(registered, manifest) ELSE registered
            /\ UNCHANGED integration
  /\ UNCHANGED <<connected, cache, calls, disk>>

\* Their places in the registry.
Providers(capability) == {i \in 1..Len(registered) : capability \in registered[i].provides}

FirstProvider(capability) ==
  registered[CHOOSE i \in Providers(capability) : \A j \in Providers(capability) : i <= j]

Ambiguous == \E i, j \in 1..Len(registered) : i # j /\ registered[i].provides \cap registered[j].provides # {}

Validate ==
  /\ integration = "registering" /\ discovered = <<>>
  /\ integration' = IF Ambiguous THEN "failed" ELSE "ready"
  /\ UNCHANGED <<discovered, registered, connected, cache, calls, disk>>

(* RegistryConnectorInvoker.invoke, a step per thing other threads see.    *)

Goto(c, place) == calls' = [calls EXCEPT ![c].at = place]
Respond(c, response) == calls' = [calls EXCEPT ![c].at = "answered", ![c].response = response]
Failure == [status |-> "failure", result |-> None]

\* For the history of calls: the root is there, and what they ask for is below it.
SteadyRequests == {request \in Requests : IsDir(Root) /\ ~Escapes(request.path)}

BeginCall(c, request) ==
  /\ integration = "ready" /\ calls[c].at \in {"none", "answered"}
  /\ calls' = [calls EXCEPT ![c] =
       [NoCall EXCEPT !.at = "lookup", !.request = request, !.steady = request \in SteadyRequests]]
  /\ UNCHANGED <<registry, connected, cache, disk>>

NoProvider(c) ==
  /\ calls[c].at = "lookup" /\ Providers(calls[c].request.capability) = {}
  /\ Respond(c, Failure)
  /\ UNCHANGED <<registry, connected, cache, disk>>

Lookup(c) ==
  /\ calls[c].at = "lookup" /\ Providers(calls[c].request.capability) # {}
  /\ LET manifest == FirstProvider(calls[c].request.capability) IN
       calls' = [calls EXCEPT
         ![c].id = manifest.id,
         ![c].made = IF manifest.id \in DOMAIN cache THEN cache[manifest.id] ELSE None,
         ![c].at = IF manifest.id \in DOMAIN cache THEN "perform" ELSE "instantiate"]
  /\ UNCHANGED <<registry, connected, cache, disk>>

\* The entry point is imported and its factory called, either of which may raise.
Instantiate(c) ==
  /\ calls[c].at = "instantiate"
  /\ IF \E m \in ToSet(registered) : m.id = calls[c].id /\ m.loads
     THEN calls' = [calls EXCEPT ![c].at = "connect", ![c].made = c]
     ELSE Respond(c, Failure)
  /\ connected' = connected \ {<<c, calls[c].id>>}
  /\ UNCHANGED <<registry, cache, disk>>

Cached(c) ==
  [id \in DOMAIN cache \cup {calls[c].id} |-> IF id = calls[c].id THEN c ELSE cache[id]]

\* mutant: the instance is kept although connect() failed
Connect_Kept(c) ==
  /\ calls[c].at = "connect"
  /\ cache' = Cached(c)
  /\ IF ConnectError = None THEN Goto(c, "perform") /\ connected' = connected \cup {<<c, calls[c].id>>}
     ELSE Respond(c, Failure) /\ UNCHANGED connected
  /\ UNCHANGED <<registry, disk>>

Connect(c) ==
  /\ calls[c].at = "connect"
  /\ IF ConnectError = None
     THEN Goto(c, "perform") /\ cache' = Cached(c) /\ connected' = connected \cup {<<c, calls[c].id>>}
     ELSE Respond(c, Failure) /\ UNCHANGED <<cache, connected>>
  /\ UNCHANGED <<registry, disk>>

IsConnected(c) == <<calls[c].made, calls[c].id>> \in connected

Perform(c) ==
  /\ calls[c].at = "perform" /\ calls[c].request.capability # "filesystem.write_text"
  /\ Respond(c, Response(IF calls[c].request.capability \in Operations
                         THEN Read(IsConnected(c), calls[c].request.capability, calls[c].request.path)
                         ELSE Raise("unknown operation")))
  /\ UNCHANGED <<registry, connected, cache, disk>>

Target(c) == Resolved(calls[c].request.path)

\* write_text: the parents, an empty file, the text.
PerformMkdir(c) ==
  /\ calls[c].at = "perform" /\ calls[c].request.capability = "filesystem.write_text"
  /\ LET error == ResolveError(IsConnected(c), calls[c].request.path) IN
     IF error # None THEN Respond(c, Response(Raise(error))) /\ UNCHANGED disk
     ELSE IF MkdirError(Target(c)) # None
     THEN Respond(c, Response(Raise(MkdirError(Target(c))))) /\ UNCHANGED disk
     ELSE disk' = WithParents(Target(c)) /\ Goto(c, "truncate")
  /\ UNCHANGED <<registry, connected, cache>>

PerformTruncate(c) ==
  /\ calls[c].at = "truncate"
  /\ IF WriteError(Target(c)) # None
     THEN Respond(c, Response(Raise(WriteError(Target(c))))) /\ UNCHANGED disk
     ELSE disk' = WithText(Target(c), Empty) /\ Goto(c, "write")
  /\ UNCHANGED <<registry, connected, cache>>

\* A file that was removed or replaced by a directory after it was opened stays
\* so; one that another call has written to since holds either text, or some of both.
PerformWrite(c) ==
  /\ calls[c].at = "write"
  /\ Respond(c, Response(Ok(None)))
  /\ IF ~IsFile(Target(c)) THEN UNCHANGED disk
     ELSE \E text \in {calls[c].request.text} \cup (IF disk[Target(c)] = Empty THEN {} ELSE {Torn}) :
            disk' = WithText(Target(c), text)
  /\ UNCHANGED <<registry, connected, cache>>

Invoke(c) ==
  \/ \E request \in Requests : BeginCall(c, request)
  \/ NoProvider(c) \/ Lookup(c) \/ Instantiate(c) \/ Connect(c)
  \/ Perform(c) \/ PerformMkdir(c) \/ PerformTruncate(c) \/ PerformWrite(c)

InvokerNext == Register \/ Validate \/ \E c \in Callers : Invoke(c)

\* Somebody else makes the disk be d: calls notice if the root goes or a link comes.
DiskBecomes(d) ==
  /\ disk' = d
  /\ calls' = [c \in Callers |-> [calls[c] EXCEPT !.steady = @ /\ calls[c].request \in SteadyRequests']]
  /\ UNCHANGED <<registry, connected, cache>>

------------------------------------------------------------------------------
(* Properties.                                                             *)

\* connector_invoker.py:98: a call is always answered and never raises; and if
\* all the time the root was there and the path did not lead out of it, what it
\* asks for has a provider that loads and the operation cannot fail, it succeeds,
\* whatever earlier or concurrent calls of that connector ran into.
CallsAreAnswered ==
  \A c \in Callers : calls[c].at = "answered" =>
    /\ calls[c].response.status # "raised"
    /\ (/\ calls[c].steady /\ calls[c].request.capability = "filesystem.exists"
        /\ \E i \in Providers("filesystem.exists") : registered[i].loads)
       => calls[c].response.status = "success"
==============================================================================
