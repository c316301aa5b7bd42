------------------------------ MODULE MCDownload ------------------------------
(***************************************************************************)
(* PrefabDownload for TLC, with calls as src/modules makes them.           *)
(***************************************************************************)
EXTENDS PrefabDownload

\* file_download(url), file_download(url, to)
Plainly ==
    [url |-> "go", file |-> "go.tar.gz", dest |-> Nowhere, overwrite |-> TRUE, clear |-> FALSE,
     deletedest |-> FALSE, guarded |-> TRUE, flatten |-> FALSE]
\* (url, overwrite=False), as PrefabOdoo
IfMissing == [Plainly EXCEPT !.overwrite = FALSE]
\* (url, overwrite=False, deletedest=True)
Deleting == [IfMissing EXCEPT !.deletedest = TRUE]
\* (url, to, overwrite=False, expand=True, removeTopDir=True), as PrefabGolang and PrefabCmake
Unpacking == [IfMissing EXCEPT !.dest = "go", !.flatten = TRUE]
\* The same with overwrite, as PrefabSynapse.
Unpacked == [Unpacking EXCEPT !.overwrite = TRUE, !.clear = TRUE]
\* (url, to, expand=True, minsizekb=0), as PrefabEtcd
Unguarded == [Plainly EXCEPT !.dest = "etcd", !.clear = TRUE, !.guarded = FALSE]
\* Fetched from a site that does not have it all the time.
Elsewhere == [Plainly EXCEPT !.url = "gone", !.file = "gone.gz"]

TheCalls == [a \in Agent |->
    {IfMissing, Unpacking, Unpacked, Unguarded, Deleting, Elsewhere}]
\* Those that continue what they find.
Continuing == {IfMissing, Unpacking}

\* The size guard of a call that continues what an earlier call has left.
PageCalls == [a \in Agent |-> {[IfMissing EXCEPT !.url = "gone", !.file = "gone.gz"]}]

TheName == {"go.tar.gz", "gone.gz", "go", "etcd"}

ASSUME CallsAreApart == Apart /\ (CallsOf # PageCalls => \A c \in Calls : Wary(c))
===============================================================================
