----------------------------- MODULE TwirpClient -----------------------------
(***************************************************************************)
(* The clients of an application: the registry of transports in core.js,   *)
(* which index.js fills with the fetch transport, the clients made from    *)
(* it, and the headers their calls send.  Clients may share an object of   *)
(* fetchOptions.  What becomes of a call after its request is sent is the  *)
(* subject of FetchStream and RxStream.                                    *)
(***************************************************************************)
EXTENDS Naturals, Sequences

CONSTANTS
    Names,          \* the names applications register transports under
    OptionObjects,  \* the objects of fetchOptions
    WithHeaders,    \* those that the application gave headers of its own
    MaxClients,     \* bound: the clients made
    MaxCalls        \* bound: the observables and the requests made

\* What a generator makes of an rpc: createFetchTransport, createObservableTransport
\* or protobuf.js's own rpcCall.
Generators == {"original", "fetch", "observable"}

ASSUME NamesAssumption == {"ORIGINAL", "FETCH", "DEFAULT"} \subseteq Names /\ "undefined" \notin Names
ASSUME OptionsAssumption == WithHeaders \subseteq OptionObjects /\ "none" \notin OptionObjects
ASSUME BoundsAssumption == MaxClients \in Nat /\ MaxCalls \in Nat

VARIABLES
    types,        \* TRANSPORT_TYPES
    generators,   \* TransportGenerators
    clients,      \* the clients, in the order they were made
    custom,       \* the objects of fetchOptions that have headers
    observables,  \* the calls of observable transports, which send when subscribed to
    requests      \* what was handed to fetch

registryVars == <<types, generators, clients, custom, observables, requests>>

\* type is the field Content-Type: application/protobuf, own a field the
\* application sets.
Headers == SUBSET {"type", "own"}

Client == [asked : Names \cup {"undefined"}, type : Names, rpc : Generators,
           options : OptionObjects \cup {"none"}]

Request == [client : Nat, headers : Headers]

RegistryTypeOK ==
    /\ types \in [Names -> Names \cup {"undefined"}]
    /\ generators \in [Names -> Generators \cup {"undefined"}]
    /\ clients \in Seq(Client)
    /\ custom \subseteq WithHeaders
    /\ observables \in Seq(Request)
    /\ requests \in Seq(Request)

\* core.js and index.js have been loaded.
RegistryInit ==
    /\ types = [n \in Names |-> IF n = "ORIGINAL" THEN "ORIGINAL"
                                ELSE IF n \in {"FETCH", "DEFAULT"} THEN "FETCH"
                                ELSE "undefined"]
    /\ generators = [n \in Names |-> IF n = "ORIGINAL" THEN "original"
                                     ELSE IF n = "FETCH" THEN "fetch"
                                     ELSE "undefined"]
    /\ clients = <<>>
    /\ custom = WithHeaders
    /\ observables = <<>>
    /\ requests = <<>>

----------------------------------------------------------------------------
\* Mutant: a name may be registered again.
RegisterOver(name, generator, setAsDefault) ==
    /\ types' = IF setAsDefault THEN [types EXCEPT ![name] = name, !["DEFAULT"] = name]
                ELSE [types EXCEPT ![name] = name]
    /\ generators' = [generators EXCEPT ![name] = generator]
    /\ UNCHANGED <<clients, custom, observables, requests>>

\* Mutant: a transport that becomes the default is stored as the default only.
RegisterDefaultOnly(name, generator, setAsDefault) ==
    /\ types[name] # name
    /\ types' = IF setAsDefault THEN [types EXCEPT ![name] = name, !["DEFAULT"] = name]
                ELSE [types EXCEPT ![name] = name]
    /\ generators' = [generators EXCEPT ![IF setAsDefault THEN "DEFAULT" ELSE name] = generator]
    /\ UNCHANGED <<clients, custom, observables, requests>>

\* registerTransportGenerator throws if the name is taken, and changes nothing.
\* DEFAULT is a field of the same table, and a name like any other to it.
Register(name, generator, setAsDefault) ==
    /\ types[name] # name
    /\ types' = IF setAsDefault THEN [types EXCEPT ![name] = name, !["DEFAULT"] = name]
                ELSE [types EXCEPT ![name] = name]
    /\ generators' = [generators EXCEPT ![name] = generator]
    /\ UNCHANGED <<clients, custom, observables, requests>>

\* getRpcCall: the transport type, or the default if there is none.
TransportType(tt) == IF tt = "undefined" THEN types["DEFAULT"] ELSE tt

\* newTwirpClient, with no transportType (asked is undefined), with a name, or with
\* TRANSPORT_TYPES[asked], which is undefined if nothing is registered under
\* that name.  It throws if the type has no generator.
NewClient(asked, fromTable, options) ==
    /\ Len(clients) < MaxClients
    /\ LET type == TransportType(IF fromTable THEN types[asked] ELSE asked)
       IN  /\ generators[type] # "undefined"
           /\ clients' = Append(clients, [asked |-> asked, type |-> type,
                                          rpc |-> generators[type], options |-> options])
    /\ UNCHANGED <<types, generators, custom, observables, requests>>

----------------------------------------------------------------------------
\* Mutant: the headers are deleted before they are joined.
FetchDeletingFirst(c) ==
    /\ Len(requests) < MaxCalls
    /\ clients[c].rpc = "fetch"
    /\ requests' = Append(requests, [client |-> c, headers |-> {"type"}])
    /\ custom' = custom \ {clients[c].options}
    /\ UNCHANGED <<types, generators, clients, observables>>

\* A call of fetchTwirpRPC up to fetch: the headers of fetchOptions are joined to
\* Content-Type and deleted from fetchOptions, which is the caller's object.
Fetch(c) ==
    /\ Len(requests) < MaxCalls
    /\ clients[c].rpc = "fetch"
    /\ requests' = Append(requests, [client |-> c, headers |->
                          {"type"} \cup (IF clients[c].options \in custom THEN {"own"} ELSE {})])
    /\ custom' = custom \ {clients[c].options}
    /\ UNCHANGED <<types, generators, clients, observables>>

\* A call of observableTwirpRPC: fetchOptions and the options of this call are
\* copied into an observable.  Headers among them take the place of
\* Content-Type.
Observe(c, rpcHeaders) ==
    /\ Len(observables) < MaxCalls
    /\ clients[c].rpc = "observable"
    /\ observables' = Append(observables, [client |-> c, headers |->
                          IF rpcHeaders \/ clients[c].options \in custom THEN {"own"} ELSE {"type"}])
    /\ UNCHANGED <<types, generators, clients, custom, requests>>

\* Every subscription sends a request.
Subscribe(o) ==
    /\ Len(requests) < MaxCalls
    /\ requests' = Append(requests, observables[o])
    /\ UNCHANGED <<types, generators, clients, custom, observables>>

Registrations == \E n \in Names, g \in Generators, d \in BOOLEAN : Register(n, g, d)

Creations ==
    \E o \in OptionObjects \cup {"none"} :
        \/ NewClient("undefined", FALSE, o)
        \/ \E n \in Names, fromTable \in BOOLEAN : NewClient(n, fromTable, o)

Calls ==
    \/ \E c \in DOMAIN clients : Fetch(c) \/ \E own \in BOOLEAN : Observe(c, own)
    \/ \E o \in DOMAIN observables : Subscribe(o)

RegistryNext == Registrations \/ Creations \/ Calls

RegistrySpec == RegistryInit /\ [][RegistryNext]_registryVars

----------------------------------------------------------------------------
(***************************************************************************)
(* Properties                                                              *)
(***************************************************************************)
\* Whatever is registered in whatever order, the default type has a generator: a
\* client that names no transport can be made (core.js 36-45, 68-75).
DefaultIsUsable == generators[types["DEFAULT"]] # "undefined"

\* "A twirpjs transport generator has already been registered" (core.js:38): two
\* clients of the same type have the same transport, however many registrations
\* lie between them.  DEFAULT is not such a name: it can be registered whenever
\* another type is the default.
SameTypeSameTransport ==
    \A i, j \in DOMAIN clients :
        clients[i].type = clients[j].type /\ clients[i].type # "DEFAULT"
            => clients[i].rpc = clients[j].rpc

\* A name keeps the generator it was registered with.
NamesKeepGenerators ==
    [][\A n \in Names \ {"DEFAULT"} :
           generators[n] # "undefined" => generators'[n] = generators[n]]_registryVars

IsFetch(r) == clients[requests[r].client].rpc = "fetch"

Options(r) == clients[requests[r].client].options

\* A request of the fetch transport names its content type, although fetchOptions
\* with headers is copied over it last (fetch_transport.js 71-73).
FetchNamesContentType ==
    \A r \in DOMAIN requests : IsFetch(r) => "type" \in requests[r].headers

\* The first request of the fetch transport with an object of fetchOptions carries
\* the headers in it; later ones, of any client that has the object, do not
\* (fetch_transport.js:72).
HeadersGoOnce ==
    \A r \in DOMAIN requests : IsFetch(r) =>
        ("own" \in requests[r].headers <=>
            /\ Options(r) \in WithHeaders
            /\ \A q \in 1 .. r - 1 : ~(IsFetch(q) /\ Options(q) = Options(r)))

----------------------------------------------------------------------------
(***************************************************************************)
(* The inductive invariant.                                                *)
(***************************************************************************)
\* A name in the table is its own type, and has a generator.
NamesAreRegistered ==
    /\ \A n \in Names \ {"DEFAULT"} : types[n] \in {n, "undefined"}
    /\ \A n \in Names : types[n] = n => generators[n] # "undefined"
    /\ \A n \in Names \ {"DEFAULT"} : generators[n] # "undefined" => types[n] = n

ClientsAreCurrent ==
    \A i \in DOMAIN clients :
        clients[i].type # "DEFAULT" =>
            clients[i].rpc = generators[clients[i].type]

CallsHaveClients ==
    /\ \A r \in DOMAIN requests : requests[r].client \in DOMAIN clients
    /\ \A o \in DOMAIN observables :
          /\ observables[o].client \in DOMAIN clients
          /\ clients[observables[o].client].rpc = "observable"

\* Headers are in their object until the first request of the fetch transport.
CustomUntilFirst ==
    \A o \in WithHeaders :
        o \in custom <=> \A q \in DOMAIN requests : ~(IsFetch(q) /\ Options(q) = o)

RegistryInv ==
    /\ RegistryTypeOK
    /\ NamesAreRegistered
    /\ DefaultIsUsable
    /\ types["DEFAULT"] \in Names
    /\ ClientsAreCurrent
    /\ CallsHaveClients
    /\ CustomUntilFirst
    /\ FetchNamesContentType
    /\ HeadersGoOnce
=============================================================================
