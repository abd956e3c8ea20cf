----------------------------- MODULE EventDispatch -----------------------------
(***************************************************************************)
(* How krabs brings an event of the session to the callbacks: the          *)
(* providers' requests joined into what ETW is asked for                   *)
(* (ut::enable_providers), the choice of the provider (forward_events),    *)
(* its callbacks and filters, the cache of schemas, and the parser a       *)
(* callback reads the event with.                                          *)
(*                                                                         *)
(* A provider has `guid', the requests `any', `all' and `level', each the  *)
(* set of the bits that are set in it, `callbacks', `filters' and          *)
(* `errors', whether it has an error callback.  A filter has `ids',        *)
(* `predicate', `callbacks' and `errors'.  What a predicate is made of     *)
(* makes no difference here: it is a function of the event and the schema  *)
(* (EventFilters has those of the library).  A callback is "plain" (asks   *)
(* for no schema), "schema" (lets the exceptions of the schema out) or     *)
(* "guarded" (catches everything, as the callbacks of this program do).    *)
(*                                                                         *)
(* An event has the fields of its header, the provider `owner' that is     *)
(* enabled for it (for a classic or a WPP event not the one in the         *)
(* header), the properties and data EventParser reads, and what its        *)
(* provider has `written' for each property.                               *)
(***************************************************************************)
EXTENDS EventPredicates, FiniteSets, PartialMaps

CONSTANTS
    Events,            \* what providers may log
    Registrable,       \* the providers the program may enable
    MaxProviders,      \* bound on those it enables
    MaxEvents,         \* bound on the different events that come
    DefaultCallback,   \* "none", "plain" or "schema"
    Accepts,           \* of {"classic", "message"}: mof_ and wpp_events_enabled_
    Types,             \* the types a callback asks the parser for
    Eval(_, _, _),     \* what a predicate says of an event, given the answer of TDH
    Nil

VARIABLES
    providers,   \* providers_, in the order of registration
    etw,         \* what the session asks ETW for, by GUID; Nil before open()
    cache,       \* schema_locator: a schema or the status of the failure, by key
    outcome,     \* what the latest dispatch of each event did; Nil before
    reading      \* the event a guarded callback reads now, and its parser

vars == <<providers, etw, cache, outcome, reading>>

\* What TDH says: the schema, ERROR_NOT_FOUND, or another failure.
Statuses == {"schema", "missing", "failed"}

\* Where the provider of an event is found: in the header, in the schema, or
\* nowhere.
GetEventType(e) ==
    IF "message" \in e.flags THEN "message"
    ELSE IF "tl" \in e.flags THEN "manifest"
    ELSE IF "classic" \in e.flags THEN "classic" ELSE "manifest"

FiltersOf(p) == ToSet(p.filters)
FilterNames(p) == {f.name : f \in FiltersOf(p)}

ASSUME AcceptsAssumption == Accepts \subseteq {"classic", "message"}

CallbackKinds == {"plain", "schema", "guarded"}

\* The names of filters tell them apart.
ASSUME ProvidersAssumption ==
    /\ Nil \notin Registrable /\ Nil \notin Statuses
    /\ \A p \in Registrable :
          /\ p.callbacks \in Seq(CallbackKinds) /\ p.filters \in Seq(FiltersOf(p))
          /\ \A f \in FiltersOf(p) : f.callbacks \in Seq(CallbackKinds)
          /\ \A i, j \in DOMAIN p.filters : p.filters[i].name = p.filters[j].name => i = j
          /\ p.name \notin FilterNames(p)

\* The GUID in the header of a manifest event is its provider's.
ASSUME EventsAssumption ==
    \A e \in Events :
        /\ e.props \in Seq([name : STRING, in : {"fixed", "pointer", "string", "sid", "wbemsid"},
                            length : Nat, tdh : Nat])
        /\ e.data \in Seq(Nat) /\ e.written \in Seq(Seq(Nat)) /\ Len(e.written) = Len(e.props)
        /\ Fits(e)
        /\ GetEventType(e) = "manifest" => e.owner = e.provider

ASSUME DefaultAssumption == DefaultCallback \in {"none", "plain", "schema"}

\* A predicate knows of TDH what it has asked for; the comparisons of a property
\* are those of EventPredicates.
ASSUME EvalAssumption ==
    \A p \in Registrable, e \in Events : \A f \in FiltersOf(p), s \in Statuses :
        /\ Eval(e, s, f.predicate) \in [v : {"true", "false", "missing", "failed"}, asked : BOOLEAN]
        /\ ~Eval(e, s, f.predicate).asked =>
              \A other \in Statuses : Eval(e, other, f.predicate) = Eval(e, s, f.predicate)
        /\ f.predicate.op = "property_view" =>
              /\ Eval(e, s, f.predicate) = PropertyView(e, s, f.predicate)
              /\ f.predicate.expected \in Seq(Nat) /\ f.predicate.ignoreCase \in BOOLEAN

-----------------------------------------------------------------------------
(* How a program puts providers and filters together                       *)

NewFilter(name, ids, predicate) ==
    [name |-> name, ids |-> ids, predicate |-> predicate, callbacks |-> <<>>, errors |-> FALSE]

NewProvider(name, guid) ==
    [name |-> name, guid |-> guid, any |-> {}, all |-> {}, level |-> {0, 2},
     callbacks |-> <<>>, filters |-> <<>>, errors |-> FALSE]

\* Of a provider or of a filter.
AddOnEventCallback(x, kind) == [x EXCEPT !.callbacks = Append(@, kind)]
AddOnErrorCallback(x) == [x EXCEPT !.errors = TRUE]

AddFilter(p, f) == [p EXCEPT !.filters = Append(@, f)]

-----------------------------------------------------------------------------
(* What the session asks ETW for                                           *)

FilterIds(p) == UNION {f.ids : f \in FiltersOf(p)}

Sharing(g) == {p \in ToSet(providers) : p.guid = g}

\* Mutant: the settings of the provider registered last replace the others.
JoinLast(g) ==
    LET p == providers[Max({i \in DOMAIN providers : providers[i].guid = g})]
    IN  [level |-> p.level, any |-> p.any, all |-> p.all, ids |-> FilterIds(p)]

\* The bits and event ids of all that share a GUID.
JoinSettings(g) ==
    [level |-> UNION {p.level : p \in Sharing(g)}, any |-> UNION {p.any : p \in Sharing(g)},
     all |-> UNION {p.all : p \in Sharing(g)}, ids |-> UNION {FilterIds(p) : p \in Sharing(g)}]

\* Mutant: only the provider registered first is enabled.
EnableFirstProvider ==
    [g \in {providers[i].guid : i \in DOMAIN providers \cap {1}} |-> JoinSettings(g)]

EnableProviders == [g \in {p.guid : p \in ToSet(providers)} |-> JoinSettings(g)]

\* Numbers compared by their bits: the highest that differs is the greater's.
AtMost(a, b) == \A i \in a \ b : \E j \in b \ a : j > i

\* ETW's side: whether settings let an event through.
Admits(s, e) ==
    /\ AtMost(e.level, s.level)
    /\ e.keyword = {} \/ ((s.any = {} \/ e.keyword \cap s.any # {}) /\ s.all \subseteq e.keyword)
    /\ s.ids = {} \/ e.id \in s.ids

-----------------------------------------------------------------------------
(* Schemas                                                                 *)

\* schema_key
KeyOf(e) == <<e.provider, e.name, e.id, e.version, e.opcode, e.level, e.keyword>>

\* get_event_schema_no_throw: the cache, or else whatever TDH says now.
SchemaAnswers(e) ==
    IF KeyOf(e) \in DOMAIN cache THEN {cache[KeyOf(e)]} ELSE Statuses

\* Mutant: only schemas are kept.
RememberSchemas(e, status) ==
    IF status = "schema" THEN Put(cache, KeyOf(e), status) ELSE cache

\* The cache after a lookup; failures are kept as well.
Remember(e, status) == Put(cache, KeyOf(e), status)

-----------------------------------------------------------------------------
(* The dispatch of one event.  A run has the log of the callbacks called,  *)
(* the exception on its way, and whether the schema was asked for.         *)

NoRun == [log |-> <<>>, thrown |-> "none", asked |-> FALSE]
Asked(run, asked) == [run EXCEPT !.asked = @ \/ asked]

\* The callbacks in order, up to one that lets an exception of the schema out.
Calls(status, run, kinds, who) ==
    LET stops == {i \in DOMAIN kinds : kinds[i] = "schema" /\ status # "schema"}
        last == IF stops = {} THEN Len(kinds) ELSE Min(stops)
    IN  IF run.thrown # "none" THEN run
        ELSE [log |-> run.log \o [i \in 1..last |-> <<kinds[i], who>>],
              asked |-> run.asked \/ \E i \in 1..last : kinds[i] # "plain",
              thrown |-> IF stops = {} THEN "none" ELSE status]

\* A schema that is missing is told to the error callback and goes no further.
Catch(run, errors, who) ==
    IF run.thrown # "missing" THEN run
    ELSE [log |-> IF errors THEN Append(run.log, <<"error", who>>) ELSE run.log,
          thrown |-> "none", asked |-> run.asked]

\* Mutant: a filter leaves the missing schema to its provider.
AfterPredicateUncaught(status, run, f, r) ==
    LET judged == Asked(run, r.asked)
    IN  IF run.thrown # "none" \/ f.callbacks = <<>> THEN run
        ELSE IF r.v = "false" THEN judged
        ELSE IF r.v = "true" THEN Calls(status, judged, f.callbacks, f.name)
        ELSE [judged EXCEPT !.thrown = r.v]

\* What a filter does when its predicate has said r.
AfterPredicate(status, run, f, r) ==
    LET judged == Asked(run, r.asked)
    IN  IF run.thrown # "none" \/ f.callbacks = <<>> THEN run
        ELSE IF r.v = "false" THEN judged
        ELSE Catch(IF r.v = "true" THEN Calls(status, judged, f.callbacks, f.name)
                   ELSE [judged EXCEPT !.thrown = r.v], f.errors, f.name)

\* event_filter::on_event
FilterOnEvent(e, status, run, f) == AfterPredicate(status, run, f, Eval(e, status, f.predicate))

\* base_provider::on_event
ProviderOnEvent(e, status, run, p) ==
    LET after[n \in 0..Len(p.filters)] ==
            IF n = 0 THEN Calls(status, run, p.callbacks, p.name)
            ELSE FilterOnEvent(e, status, after[n - 1], p.filters[n])
    IN  Catch(after[Len(p.filters)], p.errors, p.name)

\* The provider that was registered first for a GUID.
FirstFor(guid) ==
    LET places == {i \in DOMAIN providers : providers[i].guid = guid}
    IN  IF places = {} THEN Nil ELSE providers[Min(places)]

\* Mutant: the GUID of the header is taken for every kind of event.
ProviderOfHeader(e, status) == FirstFor(e.provider)

\* The provider an event goes to.
ProviderOf(e, status) ==
    IF GetEventType(e) = "manifest" THEN FirstFor(e.provider)
    ELSE IF GetEventType(e) \in Accepts /\ status = "schema" THEN FirstFor(e.owner)
    ELSE Nil

ForwardTo(p, e, status, run) ==
    IF p # Nil THEN ProviderOnEvent(e, status, run, p)
    ELSE IF DefaultCallback # "none" THEN Calls(status, run, <<DefaultCallback>>, "default")
    ELSE run

ForwardEvents(e, status) ==
    ForwardTo(ProviderOf(e, status), e, status, Asked(NoRun, GetEventType(e) \in Accepts))

-----------------------------------------------------------------------------
(* Actions                                                                 *)

Init ==
    /\ providers = <<>>
    /\ etw = Nil
    /\ cache = EmptyMap
    /\ outcome = [e \in Events |-> Nil]
    /\ reading = Nil

\* trace::enable, before the trace is opened.
Enable(p) ==
    /\ etw = Nil /\ Len(providers) < MaxProviders
    /\ p \notin ToSet(providers)
    /\ providers' = Append(providers, p)
    /\ UNCHANGED <<etw, cache, outcome, reading>>

Open ==
    /\ etw = Nil
    /\ etw' = EnableProviders
    /\ UNCHANGED <<providers, cache, outcome, reading>>

\* trace::on_event.  A callback that catches what it meets goes on to read
\* the event when there is a schema.
OnEvent(e, status, run) ==
    /\ cache' = IF run.asked THEN Remember(e, status) ELSE cache
    /\ outcome' = [outcome EXCEPT ![e] =
                      [log |-> run.log, thrown |-> run.thrown,
                       status |-> IF run.asked THEN status ELSE Nil]]
    /\ reading' = IF status = "schema" /\ \E i \in DOMAIN run.log : run.log[i][1] = "guarded"
                  THEN [event |-> e, parser |-> NewParser] ELSE Nil

\* ETW delivers the events its settings let through, one at a time.
Deliver(e) ==
    /\ etw # Nil /\ reading = Nil
    /\ Cardinality({x \in Events \ {e} : outcome[x] # Nil}) < MaxEvents
    /\ e.owner \in DOMAIN etw /\ Admits(etw[e.owner], e)
    /\ \E status \in SchemaAnswers(e) : OnEvent(e, status, ForwardEvents(e, status))
    /\ UNCHANGED <<providers, etw>>

\* parser::try_parse, the name looked for from the hint kept or from one given.
\* The type makes no difference to where the parser stands afterwards.
Parse(name, hint) ==
    /\ reading # Nil
    /\ reading' = [reading EXCEPT !.parser =
           FindProperty(reading.event, [@ EXCEPT !.hint = hint], name).parser]
    /\ UNCHANGED <<providers, etw, cache, outcome>>

ParsePointer(name) ==
    /\ reading # Nil
    /\ reading' = [reading EXCEPT !.parser = TryParsePointer(reading.event, @, name).parser]
    /\ UNCHANGED <<providers, etw, cache, outcome>>

ParseStatus ==
    /\ reading # Nil
    /\ reading' = [reading EXCEPT !.parser = TryParseOperationStatus(reading.event, @).parser]
    /\ UNCHANGED <<providers, etw, cache, outcome>>

CallbackReturns ==
    /\ reading # Nil
    /\ reading' = Nil
    /\ UNCHANGED <<providers, etw, cache, outcome>>

Next ==
    \/ \E p \in Registrable : Enable(p)
    \/ Open
    \/ \E e \in Events : Deliver(e)
    \/ /\ reading # Nil
       /\ \E name \in Names(reading.event) \cup {"nosuch"},
             hint \in {reading.parser.hint} \cup 0..PropertyCount(reading.event) :
             Parse(name, hint)
    \/ reading # Nil /\ \E name \in Names(reading.event) : ParsePointer(name)
    \/ ParseStatus
    \/ CallbackReturns

Spec == Init /\ [][Next]_vars

-----------------------------------------------------------------------------
(* Properties                                                              *)

\* The type of every variable; the parser stays inside the data and knows no
\* more properties than the event has.
TypeOK ==
    /\ ToSet(providers) \subseteq Registrable
    /\ etw = Nil \/ DOMAIN etw = {p.guid : p \in ToSet(providers)}
    /\ \A k \in DOMAIN cache : cache[k] \in Statuses
    /\ \A e \in Events : outcome[e] # Nil =>
          outcome[e].thrown \in {"none", "missing", "failed"}
    /\ reading # Nil =>
          /\ reading.parser.at \in 0..Len(reading.event.data)
          /\ Len(reading.parser.cache) <= PropertyCount(reading.event)
          /\ reading.parser.hint \in 0..PropertyCount(reading.event)

Requests(p, e) ==
    /\ p.guid = e.owner
    /\ Admits([level |-> p.level, any |-> p.any, all |-> p.all, ids |-> {}], e)
    /\ p.callbacks # <<>> \/ \E f \in FiltersOf(p) : f.ids = {} \/ e.id \in f.ids

\* Providers of one GUID that can be joined: none asks for every keyword
\* unless all do, none insists on keywords, and event ids are filtered by
\* every filter, without callbacks beside them, or by none.
Joinable(g) ==
    LET filters == UNION {FiltersOf(p) : p \in Sharing(g)}
    IN  /\ (\A p \in Sharing(g) : p.any = {}) \/ (\A p \in Sharing(g) : p.any # {})
        /\ \A p, q \in Sharing(g) : p.all = q.all
        /\ \/ \A f \in filters : f.ids = {}
           \/ (\A f \in filters : f.ids # {}) /\ (\A p \in Sharing(g) : p.callbacks = <<>>)

\* The settings the code joins for a GUID let through every event that one of
\* its providers asks for, as long as their requests can be joined at all.
RequestsAreAdmitted ==
    etw # Nil => \A p \in ToSet(providers), e \in Events :
        Joinable(p.guid) /\ Requests(p, e) => Admits(etw[p.guid], e)

\* The first provider registered for the GUID an event belongs to.
Listener(e) ==
    providers[CHOOSE i \in DOMAIN providers :
                 /\ providers[i].guid = e.owner
                 /\ \A j \in 1..(i - 1) : providers[j].guid # e.owner]

\* Its provider can be told from its header, or from its schema where the trace
\* asks for that.
Told(e, status) ==
    GetEventType(e) = "manifest" \/ (GetEventType(e) \in Accepts /\ status = "schema")

\* An event is heard by the provider registered first for it and by no other:
\* not by another GUID's, not by a second provider of the same GUID.  The
\* default callback hears it only when its provider cannot be told.
HeardByOwnerOnly ==
    \A e \in Events : outcome[e] # Nil => \A i \in DOMAIN outcome[e].log :
        LET who == outcome[e].log[i][2] IN
        \/ who \in {Listener(e).name} \cup FilterNames(Listener(e))
        \/ who = "default" /\ ~Told(e, outcome[e].status)

\* A request reaches its own provider: the settings joined for its GUID admit it,
\* and what is admitted is delivered to the providers of that GUID only.
RequestsReachTheirOwner == RequestsAreAdmitted /\ HeardByOwnerOnly

\* A missing schema ends with the filter or provider that met it.  It leaves
\* the dispatch only through the default callback, and when the callbacks of
\* the provider itself do not stumble over it, each filter does exactly what
\* it does alone: what it does is one part of all that is done.
SchemaGapsAreContained ==
    \A e \in Events, status \in Statuses :
        LET o == outcome[e]
            alone(f) == FilterOnEvent(e, status, NoRun, f).log
        IN  o # Nil /\ o.status \in {status, Nil} =>
            /\ o.thrown = "missing" => o.log[Len(o.log)] = <<"schema", "default">>
            /\ (/\ o.thrown = "none" /\ Told(e, o.status)
                /\ "schema" \notin ToSet(Listener(e).callbacks))
               => \A f \in FiltersOf(Listener(e)) : \E from, to \in 0..Len(o.log) :
                     /\ SubSeq(o.log, from + 1, to) = alone(f)
                     /\ \A i \in DOMAIN o.log : o.log[i][2] = f.name <=> i \in (from + 1)..to

\* An event is treated the same way every time it comes, whatever TDH says
\* later: schemas and failures are both kept.  (A failure that was only
\* passing is therefore kept as well.)
TreatedAlike ==
    [][\A e \in Events : outcome[e] # Nil => outcome'[e] = outcome[e]]_vars

Distinct(event) == \A i, j \in DOMAIN event.props :
    event.props[i].name = event.props[j].name => i = j

\* What a callback reads does not depend on what it read before, on hints or
\* on attempts that failed: the lazy walk gives what a new parser would give.
ParseOrderFree ==
    reading # Nil /\ Distinct(reading.event) =>
        \A name \in Names(reading.event), type \in Types :
            LET now == TryParse(reading.event, reading.parser, name, type)
                fresh == TryParse(reading.event, NewParser, name, type)
            IN  now.ok = fresh.ok /\ now.value = fresh.value

\* An event that was logged whole is read as it was written, every property
\* of it, in every order of calls.  And when only its last property may be
\* empty, the assertion in front of the walk ("if we've exhausted our buffer,
\* then we must've exhausted the properties as well") holds.
ReadsWhatWasWritten ==
    reading # Nil /\ Distinct(reading.event) =>
        LET event == reading.event
            bytes(i) == TryParse(event, reading.parser, event.props[i].name,
                                 [kind |-> "binary", size |-> 0])
        IN  LoggedWhole(event) =>
               /\ \A i \in DOMAIN event.props : bytes(i).ok /\ bytes(i).value = event.written[i]
               /\ (\A i \in 1..(PropertyCount(event) - 1) : event.written[i] # <<>>)
                  => ~Exhausted(event, reading.parser)

\* Cells without the null that ends them.
Content(cells) ==
    SubSeq(cells, 1, SelectLastInSeq(cells, LAMBDA cell : cell # 0))

\* The same cell, or the same letter where case is ignored.
Near(p, c, d) == c = d \/ (p.ignoreCase /\ c > 1 /\ d > 1 /\ c \div 2 = d \div 2)

\* Whether what a filter expects is where it looks for it.
Says(p, cells) ==
    LET at(n) == \A k \in DOMAIN p.expected :
                     n + k \in DOMAIN cells /\ Near(p, cells[n + k], p.expected[k])
        same == Len(cells) - Len(p.expected)
    IN  \/ p.compare = "equals" /\ same = 0 /\ at(0)
        \/ p.compare = "starts_with" /\ at(0)
        \/ p.compare = "ends_with" /\ same >= 0 /\ at(same)
        \/ p.compare = "contains" /\ \E n \in 0..Len(cells) : at(n)

\* A filter that compares a property compares what was written for it, without the
\* null that ends it: a filter for a beginning hears whatever goes on after it and
\* nothing else, in either case of the letters when it ignores case.
ViewsAreTrue ==
    \A e \in Events :
        /\ outcome[e] # Nil /\ outcome[e].status = "schema" /\ outcome[e].thrown = "none"
        /\ Told(e, "schema") /\ LoggedWhole(e) /\ Distinct(e)
        => \A f \in FiltersOf(Listener(e)) :
              f.predicate.op = "property_view" /\ f.callbacks # <<>> =>
                 LET p == f.predicate
                     i == CHOOSE i \in DOMAIN e.props : e.props[i].name = p.name
                     heard == \E n \in DOMAIN outcome[e].log : outcome[e].log[n][2] = f.name
                 IN  heard <=> p.name \in Names(e) /\ Says(p, Content(e.written[i]))

\* What a handler or a filter reads from an event is what was written, whatever it
\* has read or tried to read before.
ReadsAreTrue == ParseOrderFree /\ ReadsWhatWasWritten /\ ViewsAreTrue
=============================================================================
