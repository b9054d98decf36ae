------------------------ MODULE MCSharedDestination ------------------------
(* Values for the constants of SharedDestination. *)
EXTENDS SharedDestination

Wished(kind, part, file) ==
  [kind : {kind}, name : {"a"}, part : {part}, file : {file}, size : BOOLEAN, checksum : BOOLEAN]

\* A file of a mirror, another one whose name is that of the temporary file of
\* the first, a file by a URL that ends like the first, and a local file, which
\* has no destination without -o.
MCRequests ==
  Wished("mirror", 0, 1) \cup Wished("url", 0, 2)
    \cup {r \in Wished("mirror", 1, 2) \cup Wished("file", 0, 1) : ~r.size}
=============================================================================
