-------------------------- MODULE RequestDispatcher --------------------------
(***************************************************************************)
(* request_dispatcher: request_mapping files a handler in _map under its   *)
(* method and under the part of its path in front of the first variable,   *)
(* and dispatch finds the handler of a request.  dispatch changes nothing, *)
(* so it is an operator on _map and the request.                           *)
(*                                                                         *)
(* A path is a sequence of segments, a segment a sequence of letters, and  *)
(* a letter a number above that of the slash.  In a path spec a segment    *)
(* may be a variable.                                                      *)
(***************************************************************************)
EXTENDS Naturals, Sequences, SequencesExt, FiniteSetsExt

CONSTANTS RdRoutes,    \* what may be registered: [method, spec, kind]
          RdMaxRoutes,
          RdMaxSubst,  \* most variables of a path that extract_params handles
          RdRequests,  \* [options, method, path, header, length]
          RdMethods,
          RdQueries    \* query strings: sequences of letters and codes

ASSUME RdAssumption ==
    /\ RdRoutes \subseteq [method : STRING, spec : Seq(Seq(Nat)), kind : STRING]
    /\ RdRequests \subseteq [options : BOOLEAN, method : STRING, path : Seq(Seq(Nat)),
                             header : BOOLEAN, length : STRING]
    /\ RdQueries \subseteq Seq(Nat)

VARIABLES rdMap,   \* the routes in the order they were registered
          rdCors   \* _cors_enabled, as a set of methods

rdVars == <<rdMap, rdCors>>

Var == <<0>>
Slash == 1
Amp == 2
Eq == 3
Name == <<4>>   \* the query string item that a handler asks for
Code == 8       \* Code + c is the percent code of the letter c

RdInit == rdMap = <<>> /\ rdCors \in SUBSET RdMethods

RequestMapping(r) ==
    /\ Len(rdMap) < RdMaxRoutes /\ rdMap' = Append(rdMap, r)
    /\ UNCHANGED rdCors

RdNext == \E r \in RdRoutes : RequestMapping(r)

RdSpec == RdInit /\ [][RdNext]_rdVars

-----------------------------------------------------------------------------
(* The text of the first n segments, and that of all of them.              *)
TextUpTo(segs) ==
    LET T[n \in 0..Len(segs)] == IF n = 0 THEN <<>> ELSE T[n - 1] \o <<Slash>> \o segs[n] IN T
Text(segs) == TextUpTo(segs)[Len(segs)]

Vars(spec) == {i \in 1..Len(spec) : spec[i] = Var}

(* non_var: the text of a path spec in front of its first variable.        *)
NonVar(spec) ==
    IF Vars(spec) = {} THEN Text(spec)
    ELSE TextUpTo(spec)[Min(Vars(spec)) - 1] \o <<Slash>>

(* The order of std::map<std::string, ...>.                                *)
Before(s, t) ==
    \/ s # t /\ IsPrefix(s, t)
    \/ \E i \in 1..Len(s) : i <= Len(t) /\ s[i] < t[i] /\ \A j \in 1..(i - 1) : s[j] = t[j]

(* extract_params: every variable stands for one segment that is not empty.*)
PathMatches(spec, path) ==
    /\ Len(spec) = Len(path) /\ Cardinality(Vars(spec)) <= RdMaxSubst
    /\ \A i \in 1..Len(spec) : IF spec[i] = Var THEN path[i] # <<>> ELSE spec[i] = path[i]

(* What a handler with a body in json makes of the length of the body.     *)
BodyAsJson(length) ==
    CASE length = "none" -> 411 [] length = "short" -> 406
      [] length = "long" -> 413 [] length = "invalid" -> 400 [] OTHER -> 200

(* The responder of a route whose path matches.                            *)
Respond(r, req, isOptions) ==
    IF isOptions THEN 204
    ELSE IF r.kind = "header" /\ ~req.header THEN 400
    ELSE IF r.kind = "body" THEN BodyAsJson(req.length) ELSE 200

Indices(method) == {i \in 1..Len(rdMap) : rdMap[i].method = method}
Keys(method) == {NonVar(rdMap[i].spec) : i \in Indices(method)}

(* Mutant: lower_bound in the place of upper_bound.                        *)
KeysBelow(keys, text) == {k \in keys : Before(k, text)}

(* What upper_bound leaves behind it.                                      *)
KeysUpTo(keys, text) == {k \in keys : ~Before(text, k)}

Answer(status, i) == [status |-> status, route |-> i]

(* The entry in front of upper_bound(path): its routes are tried in order. *)
Route(req, isOptions) ==
    LET text == Text(req.path)
        keys == KeysUpTo(Keys(req.method), text)
        key == CHOOSE k \in keys : \A k2 \in keys : ~Before(k, k2)
        fit == {i \in Indices(req.method) : /\ NonVar(rdMap[i].spec) = key
                                            /\ PathMatches(rdMap[i].spec, req.path)}
    IN IF Indices(req.method) = {} THEN Answer(405, 0)
       ELSE IF keys = {} \/ fit = {} THEN Answer(404, 0)
       ELSE Answer(Respond(rdMap[Min(fit)], req, isOptions), Min(fit))

(* The method that the code looks for in _cors_enabled.                    *)
CorsFlag(method) == IF method = "DELETE" THEN "PUT" ELSE method

(* An OPTIONS request with an empty path asks what is allowed, any other   *)
(* one about the method in its header, which may be missing ("").          *)
Dispatch(req) ==
    IF req.options /\ rdCors # {}
    THEN CASE req.path = <<>> -> Answer(204, 0)
           [] req.path # <<>> /\ req.method = "" -> Answer(400, 0)
           [] OTHER -> IF CorsFlag(req.method) \in rdCors
                       THEN Route(req, TRUE) ELSE Answer(405, 0)
    ELSE IF req.options THEN Answer(405, 0)
    ELSE Route(req, FALSE)

-----------------------------------------------------------------------------
(* percent_decode, of text in which every percent sign begins a code, and  *)
(* none is that of the letter 0.                                           *)
Decode(text) ==
    [k \in 1..Len(text) |-> IF text[k] < Code THEN text[k] ELSE text[k] - Code]

(* extract_params, the value of a query string item: the position of       *)
(* "name=" that is at the start or behind an "&", looking on behind the    *)
(* next "&" when it is not.                                                *)
Occurs(q, s, p) == p + Len(s) - 1 <= Len(q) /\ \A k \in 1..Len(s) : q[p + k - 1] = s[k]
FindFrom(q, s, p) ==
    LET at == {k \in p..Len(q) : Occurs(q, s, k)} IN IF at = {} THEN 0 ELSE Min(at)

SearchFrom(q, item) ==
    LET Search[p \in 0..Len(q)] ==
          LET pos == IF p = 0 THEN 0 ELSE FindFrom(q, item, p)
          IN IF pos = 0 THEN 0
             ELSE IF pos = 1 THEN pos
             ELSE IF q[pos - 1] = Amp THEN pos
             ELSE Search[FindFrom(q, <<Amp>>, pos + Len(item))]
    IN Search
QueryPos(q, name) == IF q = <<>> THEN 0 ELSE SearchFrom(q, Append(name, Eq))[1]

ValueIn(q, name) ==
    LET pos == QueryPos(q, name)
        from == pos + Len(name) + 1
        amp == FindFrom(q, <<Amp>>, from)
    IN IF pos = 0 THEN <<>> ELSE SubSeq(q, from, IF amp = 0 THEN Len(q) ELSE amp - 1)

(* The whole query string is decoded, and then searched.                   *)
QueryItem(query, name) == ValueIn(Decode(query), name)

-----------------------------------------------------------------------------
(* The routes that the documentation promises for a request.               *)
Fits(req) == {i \in Indices(req.method) : PathMatches(rdMap[i].spec, req.path)}
NoKeyInsideAnother(method) ==
    \A k, l \in Keys(method) : IsPrefix(k, l) => k = l

(* A request reaches the route that was registered first among the ones    *)
(* that match it, and none when none matches, whatever else is registered  *)
(* under its method, provided that no key there begins with another.       *)
RoutedRight(req) ==
    LET a == Dispatch(req) IN
    /\ a.route # 0 => a.route \in Fits(req)
    /\ ~req.options /\ NoKeyInsideAnother(req.method) =>
         a.route = IF Fits(req) = {} THEN 0 ELSE Min(Fits(req))

(* A preflight request is granted exactly if the request it announces      *)
(* would reach a route and cors is enabled for its method, where DELETE    *)
(* goes with PUT.                                                          *)
GrantedFor(req, method) ==
    Dispatch(req).status = 204
      <=> method \in rdCors /\ Dispatch([req EXCEPT !.options = FALSE]).route # 0
IsPreflight(req) == req.options /\ rdCors # {} /\ req.path # <<>> /\ req.method # ""
PreflightRight(req) ==
    IsPreflight(req) => GrantedFor(req, IF req.method = "DELETE" THEN "PUT" ELSE req.method)

(* The items of a query string as sequences: the value is that of the      *)
(* first item that is named, decoded, unless "&" or "=" come as codes.     *)
Ampersands(q) == {0, Len(q) + 1} \cup {p \in 1..Len(q) : q[p] = Amp}
Items(q) == {it \in Ampersands(q) \X Ampersands(q) :
               it[1] < it[2] /\ \A c \in Ampersands(q) : ~(it[1] < c /\ c < it[2])}
ValueRight(q) ==
    LET named == {it \in Items(q) : /\ it[1] + Len(Name) + 1 < it[2]
                                    /\ Occurs(Decode(q), Append(Name, Eq), it[1] + 1)}
        first == CHOOSE it \in named : \A other \in named : it[1] <= other[1]
    IN QueryItem(q, Name) =
         IF named = {} THEN <<>> ELSE Decode(SubSeq(q, first[1] + Len(Name) + 2, first[2] - 1))
QueryRight(q) ==
    (\A k \in 1..Len(q) : q[k] \notin {Code + Amp, Code + Eq}) => ValueRight(q)

RoutesSound ==
    /\ \A req \in RdRequests : RoutedRight(req) /\ PreflightRight(req)
    /\ rdMap = <<>> => \A q \in RdQueries : QueryRight(q)

(* request_dispatcher.h 64-79: whatever else is registered, a request that *)
(* matches a registered path spec is mapped to its function.               *)
RouteFound ==
    \A req \in RdRequests :
      ~req.options /\ Fits(req) # {} => Dispatch(req).route # 0

(* "The query string values will be passed to your function": one with an  *)
(* ampersand in it, which has to come as a code, is cut off there.         *)
ValuePassed == rdMap = <<>> => \A q \in RdQueries : ValueRight(q)

(* http_server.h has a flag to enable cors for DELETE, and the answer to   *)
(* "OPTIONS *" names DELETE by that flag: a preflight request is granted   *)
(* by the flag of PUT.                                                     *)
DeleteGranted ==
    \A req \in RdRequests :
      IsPreflight(req) /\ req.method = "DELETE" => GrantedFor(req, "DELETE")
=============================================================================
