------------------------------- MODULE MCImages -------------------------------
(***************************************************************************)
(* Image references with and without a host, a port, a tag and a digest,   *)
(* and hosts and components that begin like others.                        *)
(***************************************************************************)
EXTENDS ImageReferences

MCHosts ==
    { <<"gcr", ".", "io">>, <<"gcr", ".", "io", "x">>, <<"gcr", ".", "io", ".", "net">>,
      <<"docker", ".", "io">>, <<"localhost">>, <<"localhost", ":", "5000">> }

MCComponents == { <<"team">>, <<"team", "s">>, <<"library">>, <<"my", ".", "app">> }

MCTags == { <<"latest">>, <<"v1">>, <<"latest", ".", "1">> }

MCDigests == { <<"sha256", ":", "abc">> }

MCEntries ==
    UNION { {<<h>>} \cup {<<h, c>> : c \in MCComponents}
            \cup {<<h, c, d>> : c \in MCComponents, d \in {<<"team">>, <<"my", ".", "app">>}} :
            h \in MCHosts }
===============================================================================
