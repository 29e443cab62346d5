------------------------------ MODULE MCModelSync ------------------------------
(* Small instances of ModelSync.                                             *)
EXTENDS ModelSync

MCModels == {[provider |-> "p", id |-> "a"], [provider |-> "p", id |-> "b"]}
MCOthers == {[sharing |-> TRUE, providers |-> MCModels, shared |-> {"a"}],
             [sharing |-> TRUE, providers |-> MCModels, shared |-> {"a", "b"}]}
MCPrivate == {{}, {"a"}}
MCInitial == {}
MCFaults == {"withdraw", "fetch", "put", "update", "restart"}
=============================================================================
