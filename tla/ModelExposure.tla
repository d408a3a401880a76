---------------------------- MODULE ModelExposure ----------------------------
(***************************************************************************)
(* Which models the gateway shows and takes: the catalog fetched from the  *)
(* upstream (models.go), the exclude_models entries, and the console's     *)
(* list of checkboxes that rewrites them (admin.go).  An entry hides every *)
(* model it is a prefix of, by full id or by the part after the last "/".  *)
(* Names are model values; that one starts with another is given.          *)
(***************************************************************************)
EXTENDS FiniteSets

CONSTANTS
    Model,          \* ids of the upstream's models
    Entry,          \* what exclude_models may hold: ids and prefixes
    Base(_),        \* the part of a model id after its last "/"
    StartsWith,     \* <<name, entry>>: the name starts with the entry
    FirstExcludes   \* exclude_models of a new configuration

ASSUME ExposureConstants ==
    /\ IsFiniteSet(Entry)
    /\ Model \subseteq Entry /\ FirstExcludes \subseteq Entry
    /\ \A m \in Model : <<m, m>> \in StartsWith

(* The ids have at most one "/": what the part after it starts with has    *)
(* none, and of two ids of one vendor the parts after it compare like the  *)
(* ids do.                                                                 *)
ASSUME ExposureNames ==
    /\ \A p, q \in StartsWith : p[2] = q[1] => <<p[1], q[2]>> \in StartsWith
    /\ \A m, n \in Model : <<Base(m), n>> \in StartsWith => Base(n) = n
    /\ \A m, n \in Model : <<m, n>> \in StartsWith =>
          Base(n) = n \/ <<Base(m), Base(n)>> \in StartsWith

VARIABLES
    modelCatalog,   \* ids of the catalog
    excludes        \* cfg.ExcludeModels

exposureVars == <<modelCatalog, excludes>>

ExposureInit ==
    /\ modelCatalog = {}
    /\ excludes = FirstExcludes

isModelExcluded(m, entries) ==
    \E e \in entries : <<m, e>> \in StartsWith \/ <<Base(m), e>> \in StartsWith

(* GET models: what the list of checkboxes shows as checked; the client's  *)
(* /v1/models shows the same.                                              *)
Exposed(entries) == {m \in modelCatalog : ~ isModelExcluded(m, entries)}

(* Mutant: an unchecked model is written only if it had an entry already.  *)
RewrittenKnown(entries, checked) ==
    ((modelCatalog \cap entries) \ checked)
        \cup {e \in entries \ modelCatalog :
                \A m \in modelCatalog : ~ isModelExcluded(m, {e})}

(* PUT models: every catalog id that was not checked becomes an entry, and *)
(* the old entries that match nothing in the catalog stay.                 *)
Rewritten(entries, checked) ==
    (modelCatalog \ checked)
        \cup {e \in entries \ modelCatalog :
                \A m \in modelCatalog : ~ isModelExcluded(m, {e})}

PutExposure(checked) ==
    /\ excludes' = Rewritten(excludes, checked)
    /\ UNCHANGED modelCatalog

(* FetchProviderModels replaces the catalog when the upstream answers.     *)
FetchProviderModels ==
    /\ modelCatalog' \in SUBSET Model
    /\ UNCHANGED excludes

ExposureNext ==
    \/ \E checked \in SUBSET Model : PutExposure(checked)
    \/ FetchProviderModels

ExposureTypeOK ==
    /\ modelCatalog \subseteq Model
    /\ excludes \subseteq Entry

(* Saving the list as it is shown changes nothing that is shown: the ids   *)
(* written for the unchecked models hide exactly what prefixes hid before. *)
SaveKeepsExposure == Exposed(Rewritten(excludes, Exposed(excludes))) = Exposed(excludes)
=============================================================================
