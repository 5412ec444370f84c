-------------------------------- MODULE MCBundle --------------------------------
(***************************************************************************)
(* One answer of one search provider, with a hit nobody can use: whether   *)
(* prepare_context tells it.                                               *)
(***************************************************************************)
EXTENDS Bundle

OneProvider == {"notes"}
TwoHits == <<"note", "flawed">>
ProviderOfEach == [h \in {"note", "flawed"} |-> "notes"]
KindOfEach == [h \in {"note", "flawed"} |-> "note"]
NeedOfEach == [h \in {"note", "flawed"} |-> "id"]
AnyFlaw == [note |-> "none", flawed |-> "lookup"]
NoNames == {}
NoSource == <<>>
==================================================================================
