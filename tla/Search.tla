-------------------------------- MODULE Search --------------------------------
(***************************************************************************)
(* The results of a search (js/ui/search.js, remoteSearch.js).  Typing     *)
(* starts a timeout, the timeout asks every provider; what a remote one    *)
(* answers names results, and the metas of those that have no actor yet    *)
(* are asked for before the display of the provider shows them.  New terms *)
(* cancel what was asked, new results the metas that were; the providers   *)
(* are loaded anew when the settings change, with all that under way.      *)
(*                                                                         *)
(* A cancelled question is forgotten: nothing is done with its answer.     *)
(* Cancelled metas are answered with none, as those that fail.             *)
(*                                                                         *)
(* Abstracted: terms are sequences of letters, where the code joins words; *)
(* what a result is; how many fit (filterResults keeps some of them).      *)
(***************************************************************************)
EXTENDS Integers, Sequences, SequencesExt, FiniteSets

CONSTANTS
  Remote,     \* the remote providers that are installed
  Letters,
  MaxLength,  \* bound on the terms
  MaxTyped,   \* bound on the changes of the text
  MaxReloads  \* bound on the changes of the settings

SearchAssumption ==
  /\ "apps" \notin Remote
  /\ MaxLength \in Nat /\ MaxTyped \in Nat /\ MaxReloads \in Nat

VARIABLES
  _providers,       \* in their order, see Providers
  _terms, _isSubSearch,
  _results,         \* of each provider the terms its last results are for
  _startingSearch,
  _searchTimeoutId,
  _defaultResult,
  asks,             \* the questions for results that may still be answered
  metas,            \* those for metas, the cancelled too
  typed, reloads    \* counted for the bounds

vars == <<_providers, _terms, _isSubSearch, _results, _startingSearch, _searchTimeoutId,
          _defaultResult, asks, metas, typed, reloads>>

-----------------------------------------------------------------------------
Texts == BoundedSeq(Letters, MaxLength)
Ids == Remote \cup {"apps"}
Result == {1, 2}
Answers == {<<>>, <<1>>, <<2>>, <<1, 2>>}
None == [id |-> "none", orphan |-> FALSE, result |-> 0]
NoTerms == <<"none">>

(* A provider with its display: whether it is visible, its items, and the  *)
(* results that have an actor.                                             *)
Providers ==
  [id : Ids, shown : BOOLEAN, content : Answers, made : SUBSET Result, searchInProgress : BOOLEAN]

_registerProvider(id) ==
  [id |-> id, shown |-> FALSE, content |-> <<>>, made |-> {}, searchInProgress |-> FALSE]

(* Of a provider that was unregistered since, the display is destroyed.    *)
Ask == [id : Ids, orphan : BOOLEAN, terms : Texts, previous : Texts \cup {NoTerms}]
Metas ==
  [id : Ids, orphan : BOOLEAN, results : Answers, needed : SUBSET Result, cancelled : BOOLEAN]

At(providers, id) == SelectInSeq(providers, LAMBDA p : p.id = id)
searchInProgress == _startingSearch \/ \E i \in DOMAIN _providers : _providers[i].searchInProgress

(* _maybeSetInitialSelection: the first of the first that shows any.       *)
First(providers) ==
  LET i == SelectInSeq(providers, LAMBDA p : p.shown /\ p.content # <<>>)
  IN  IF i = 0 THEN None
      ELSE [id |-> providers[i].id, orphan |-> FALSE, result |-> Head(providers[i].content)]

-----------------------------------------------------------------------------
(* The display of a provider.                                              *)
clear(p) == [p EXCEPT !.made = {}, !.content = <<>>, !.shown = FALSE]

(* The actors of the results are added; where one has none, the code       *)
(* throws with the rest left out, the display hidden and no more done.     *)
Throws(p, results) == \E i \in DOMAIN results : results[i] \notin p.made
Filled(p, results) ==
  LET missing == SelectInSeq(results, LAMBDA r : r \notin p.made)
  IN  IF missing = 0
      THEN [p EXCEPT !.content = results, !.shown = TRUE, !.searchInProgress = FALSE]
      ELSE [p EXCEPT !.content = SubSeq(results, 1, missing - 1), !.shown = FALSE]

Refused(p) == [p EXCEPT !.content = <<>>, !.searchInProgress = FALSE]

Needed(p, results) == ToSet(results) \ p.made

(* updateSearch, up to the question for metas that it may ask.             *)
updateSearch(p, results) ==
  IF results = <<>> THEN [Refused(p) EXCEPT !.shown = FALSE]
  ELSE IF Needed(p, results) = {} THEN Filled(p, results) ELSE p

(* Mutant of MetasAfter: the metas of earlier results are not cancelled.   *)
MetasKept(p, results) ==
  IF Needed(p, results) = {} THEN metas
  ELSE metas \cup {[id |-> p.id, orphan |-> FALSE, results |-> results,
                    needed |-> Needed(p, results), cancelled |-> FALSE]}

(* _ensureResultActors: those that are pending are cancelled when more are *)
(* needed, and only then.                                                  *)
MetasAfter(p, results) ==
  IF Needed(p, results) = {} THEN metas
  ELSE {IF m.id = p.id /\ ~m.orphan THEN [m EXCEPT !.cancelled = TRUE] ELSE m : m \in metas}
         \cup {[id |-> p.id, orphan |-> FALSE, results |-> results,
                needed |-> Needed(p, results), cancelled |-> FALSE]}

-----------------------------------------------------------------------------
Init ==
  /\ \E on \in SUBSET Remote :
       _providers = <<_registerProvider("apps")>> \o
                      [i \in 1..Cardinality(on) |-> _registerProvider(SetToSeq(on)[i])]
  /\ _terms = <<>> /\ _isSubSearch = FALSE
  /\ _results = [id \in Ids |-> NoTerms]
  /\ _startingSearch = FALSE /\ _searchTimeoutId = FALSE
  /\ _defaultResult = None
  /\ asks = {} /\ metas = {}
  /\ typed = 0 /\ reloads = 0

(* setTerms without any: _reset.                                           *)
SetNone ==
  /\ _terms # <<>> /\ typed < MaxTyped
  /\ typed' = typed + 1
  /\ _terms' = <<>> /\ asks' = {}
  /\ _results' = [id \in Ids |-> NoTerms]
  /\ _providers' = [i \in DOMAIN _providers |-> clear(_providers[i])]
  /\ _searchTimeoutId' = FALSE /\ _startingSearch' = FALSE
  /\ _defaultResult' = None
  /\ UNCHANGED <<_isSubSearch, metas, reloads>>

(* setTerms, unless they are what they were.  A timeout that runs is not   *)
(* started anew.                                                           *)
setTerms(terms) ==
  /\ terms \notin {<<>>, _terms} /\ typed < MaxTyped
  /\ typed' = typed + 1
  /\ _terms' = terms /\ asks' = {}
  /\ _isSubSearch' = (_terms # <<>> /\ IsPrefix(_terms, terms))
  /\ _searchTimeoutId' = TRUE /\ _startingSearch' = TRUE
  /\ UNCHANGED <<_providers, _results, _defaultResult, metas, reloads>>

(* _doSearch.  The applications are searched at once, and their metas are  *)
(* at hand; the others are asked.                                          *)
_doSearch ==
  \E answer \in Answers :
    LET local == updateSearch(_providers[1], answer)
        made == [local EXCEPT !.made = @ \cup ToSet(answer)]
        apps == IF answer = <<>> THEN local ELSE Filled(made, answer)
    IN  /\ _startingSearch' = FALSE /\ _searchTimeoutId' = FALSE
        /\ _results' = [id \in Ids |-> IF id = "apps" THEN _terms ELSE NoTerms]
        /\ _providers' = [i \in DOMAIN _providers |->
             IF i = 1 THEN apps ELSE [_providers[i] EXCEPT !.searchInProgress = TRUE]]
        /\ _defaultResult' = First(_providers')
        /\ asks' = asks \cup {[id |-> p.id, orphan |-> FALSE, terms |-> _terms,
                      previous |-> IF _isSubSearch THEN _results[p.id] ELSE NoTerms] :
                     p \in ToSet(Tail(_providers))}
        /\ UNCHANGED <<_terms, _isSubSearch, metas>>

_onSearchTimeout == _searchTimeoutId /\ _doSearch /\ UNCHANGED <<typed, reloads>>

(* activateDefault, popupMenuDefault: a search that waits is forced; what  *)
(* is activated then changes nothing here.                                 *)
activateDefault == _searchTimeoutId /\ _doSearch /\ UNCHANGED <<typed, reloads>>

-----------------------------------------------------------------------------
Put(p) == [i \in DOMAIN _providers |-> IF _providers[i].id = p.id THEN p ELSE _providers[i]]

(* _gotResults, of a provider that may be unregistered by now; an error is *)
(* an answer without results.                                              *)
GotResults(a, answer) ==
  /\ a \in asks
  /\ asks' = asks \ {a}
  /\ _results' = [_results EXCEPT ![a.id] = a.terms]
  /\ IF a.orphan THEN UNCHANGED <<_providers, metas>>
     ELSE LET p == _providers[At(_providers, a.id)]
          IN  /\ _providers' = Put(updateSearch(p, answer))
              /\ metas' = MetasAfter(p, answer)
  /\ _defaultResult' =
       IF _providers' = _providers /\ metas' # metas THEN _defaultResult ELSE First(_providers')
  /\ UNCHANGED <<_terms, _isSubSearch, _startingSearch, _searchTimeoutId, typed, reloads>>

(* The metas come, or an error, or none as they were cancelled.            *)
GotMetas(m, valid) ==
  /\ m \in metas /\ (valid => ~m.cancelled)
  /\ metas' = metas \ {m}
  /\ IF m.orphan THEN _providers' = _providers /\ _defaultResult' = First(_providers)
     ELSE LET p == _providers[At(_providers, m.id)]
              made == [p EXCEPT !.made = @ \cup m.needed]
          IN  /\ _providers' = Put(IF valid THEN Filled(made, m.results) ELSE Refused(p))
              /\ _defaultResult' =
                   IF valid /\ Throws(made, m.results) THEN _defaultResult ELSE First(_providers')
  /\ UNCHANGED <<_terms, _isSubSearch, _results, _startingSearch, _searchTimeoutId, asks, typed,
                 reloads>>

(* _reloadRemoteProviders: the displays of the old ones are destroyed, and *)
(* with one the result that is the default.                                *)
_reloadRemoteProviders(on) ==
  /\ reloads < MaxReloads
  /\ reloads' = reloads + 1
  /\ _providers' = <<_providers[1]>> \o
                     [i \in 1..Cardinality(on) |-> _registerProvider(SetToSeq(on)[i])]
  /\ asks' = {[a EXCEPT !.orphan = TRUE] : a \in asks}
  /\ metas' = {[m EXCEPT !.orphan = TRUE] : m \in metas}
  /\ _defaultResult' = [_defaultResult EXCEPT !.orphan = @ \/ _defaultResult.id \in Remote]
  /\ UNCHANGED <<_terms, _isSubSearch, _results, _startingSearch, _searchTimeoutId, typed>>

Next ==
  \/ SetNone
  \/ \E terms \in Texts : setTerms(terms)
  \/ _onSearchTimeout
  \/ activateDefault
  \/ \E a \in asks, answer \in Answers : GotResults(a, answer)
  \/ \E m \in metas, valid \in BOOLEAN : GotMetas(m, valid)
  \/ \E on \in SUBSET Remote : _reloadRemoteProviders(on)

(* The timeout ends, and a call of D-Bus has an answer or an error.        *)
Fairness ==
  /\ WF_vars(_onSearchTimeout)
  /\ WF_vars(\E a \in asks, answer \in Answers : GotResults(a, answer))
  /\ WF_vars(\E m \in metas, valid \in BOOLEAN : GotMetas(m, valid))

Spec == Init /\ [][Next]_vars /\ Fairness

-----------------------------------------------------------------------------
TypeOK ==
  /\ _providers \in Seq(Providers)
  /\ {_terms} \subseteq Texts /\ _isSubSearch \in BOOLEAN
  /\ _results \in [Ids -> Texts \cup {NoTerms}]
  /\ _startingSearch \in BOOLEAN /\ _searchTimeoutId \in BOOLEAN
  /\ _defaultResult \in [id : Ids, orphan : BOOLEAN, result : Result] \cup {None}
  /\ asks \subseteq Ask /\ metas \subseteq Metas

(* Whatever may still be answered was asked for the terms there are, and   *)
(* no provider is asked twice, nor before the timeout: no late answer      *)
(* shows what was not searched for.                                        *)
AsksAreLatest ==
  \A a \in asks :
    /\ a.terms = _terms /\ ~_searchTimeoutId
    /\ \A b \in asks : b.id = a.id /\ b.orphan = a.orphan => b = a

(* The result that Return activates is the first that is shown, unless its *)
(* provider was unregistered: it never is another actor that is gone.      *)
DefaultIsFirst == ~_defaultResult.orphan => _defaultResult = First(_providers)

(* Of the metas of a provider, those of one question may come: two would   *)
(* fill its display in the order they come in.                             *)
OneQuestion ==
  \A m, n \in metas : m.id = n.id /\ ~m.orphan /\ ~n.orphan /\ ~m.cancelled /\ ~n.cancelled => m = n

SearchSound == TypeOK /\ AsksAreLatest /\ DefaultIsFirst /\ OneQuestion

(* A search ends: each provider answers, or is found not to.               *)
SearchEnds == <>[](_terms = <<>> \/ ~searchInProgress)

(* A subsearch gets the results of a search that it narrows, as the        *)
(* interface of the providers says.  The code compares with the terms that *)
(* were typed, and passes the results of those that were searched.         *)
SubsearchNarrows == \A a \in asks : a.previous # NoTerms => IsPrefix(a.previous, a.terms)
=============================================================================
