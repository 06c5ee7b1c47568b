-------------------------------- MODULE MCIpa --------------------------------
(* A complete app, and archives that vary it in one respect at a time: the   *)
(* paths, their spelling and order, the members an app must have, the byte   *)
(* ranges, the declared sizes, one payload, the directory, the flags, the    *)
(* file and what its property lists say.                                     *)
EXTENDS IpaArchive, TLC

Same == {"Payload", "A.app", "a.app", "B.app", "Info.plist", "info.plist", "X",
         "X.sinf", "SC_Info", "_CodeSignature", "CodeResources",
         "iTunesMetadata.plist", "x", "y"}
MCParts == Same \cup {"payload", "A.APP"}
\* What the fold leaves alone stands for its own folded form.
MCFold == [p \in MCParts |->
  CASE p \in {"A.app", "A.APP"} -> "a.app" [] p = "payload" -> "Payload"
    [] p = "info.plist" -> "Info.plist" [] OTHER -> p]
MCSinfOf == [p \in {"X"} |-> "X.sinf"]

App1(path) == <<"Payload", "A.app">> \o path
InfoPath == App1(<<"Info.plist">>)

File(name) ==
  [name |-> name, dir |-> FALSE, type |-> "unspecified", method |-> "stored",
   flags |-> {}, parses |-> TRUE, safe |-> TRUE, agrees |-> TRUE, sentinels |-> 0,
   zip64 |-> <<>>, offset |-> 0, descriptor |-> FALSE, descriptors |-> {},
   outputs |-> <<1>>, ending |-> 1, file_size |-> 1, crc |-> TRUE]
Dir(name) ==
  [File(name) EXCEPT !.dir = TRUE, !.outputs = <<>>, !.file_size = 0]
Sized(e, n) == [e EXCEPT !.outputs = [k \in 1..n |-> 1], !.file_size = n]

Executable == File(App1(<<"X">>))
\* The members an app must have.
Complete ==
  <<File(InfoPath), File(<<"iTunesMetadata.plist">>), Executable,
    File(App1(<<"SC_Info", "X.sinf">>)),
    File(App1(<<"_CodeSignature", "CodeResources">>))>>
Other == File(App1(<<"x">>))
Third == File(App1(<<"y">>))

\* Members one after the other, in the order given.
Placed(entries) ==
  LET at[k \in 1..(Len(entries) + 1)] ==
        IF k = 1 THEN 0 ELSE at[k - 1] + 1 + Len(entries[k - 1].outputs)
  IN [entries |-> [k \in DOMAIN entries |-> [entries[k] EXCEPT !.offset = at[k]]],
      end |-> at[Len(entries) + 1]]

Archive(some) ==
  LET placed == Placed(some) IN
  [regular |-> TRUE, readable |-> TRUE, unchanged |-> TRUE, length |-> 30,
   ends |-> <<TRUE>>, coherent |-> TRUE, declared |-> Len(some), size |-> Len(some),
   directory_size |-> Len(some), adjacent |-> TRUE,
   directory_offset |-> placed.end, entries |-> placed.entries,
   info |-> [dictionary |-> TRUE, bundle |-> "x", versions |-> TRUE,
             executable |-> "X"],
   metadata |-> [dictionary |-> TRUE, bundle |-> "x", store |-> "1"],
   expected_bundle |-> "none", expected_store |-> "none"]

SomePaths ==
  {<<"Payload">>, <<"payload">>, <<"Payload", "A.app">>, <<"Payload", "a.app">>,
   <<"Payload", "B.app">>, <<"payload", "B.app">>, <<"Payload", "A.APP", "x">>,
   InfoPath, App1(<<"info.plist">>), App1(<<"Info.plist", "x">>), <<"x">>}
Extra ==
  {File(n) : n \in SomePaths} \cup {Dir(n) : n \in SomePaths}
  \cup {[Other EXCEPT !.type = t] : t \in {"dir", "file", "link"}}
  \cup {[Dir(<<"x">>) EXCEPT !.type = t] : t \in {"dir", "file"}}

Shapes ==
  {Archive(IF first THEN s \o Complete ELSE Complete \o s) :
     s \in BoundedSeq(Extra, 2), first \in BOOLEAN}
  \cup {Archive(<<e>> \o Complete \o <<f>>) : e \in Extra, f \in Extra}
  \cup {Archive(<<e>> \o RemoveAt(Complete, k)) : e \in Extra, k \in 1..5}

Contents ==
  {Archive([k \in 1..5 |-> IF k = 2 THEN Complete[k] ELSE Sized(Complete[k], n[k])]) :
     n \in {n \in [1..5 -> 0..3] : n[2] = 1 /\ n[5] < 2}}
  \cup {Archive([Complete EXCEPT ![2] = Sized(@, n)]) : n \in 0..3}
  \cup
  {[Archive(Complete) EXCEPT
      !.info = [dictionary |-> d, bundle |-> b, versions |-> v, executable |-> x],
      !.metadata = [@ EXCEPT !.bundle = mb, !.dictionary = md],
      !.expected_bundle = eb] :
     d \in BOOLEAN, md \in BOOLEAN, v \in BOOLEAN, x \in {"X", "missing"},
     b \in {"x", "a b"}, mb \in {"x", "z", "a b"}, eb \in {"none", "x", "z", "a b"}}
  \cup
  {[Archive(Complete) EXCEPT !.metadata = [@ EXCEPT !.store = s], !.expected_store = es] :
     s \in {"missing", "1", "-1"}, es \in {"none", "1", "2", "-1", "missing"}}

\* A complete app whose last two members, and one more, lie anywhere.
Moved(entries, at, end) ==
  [Archive(entries) EXCEPT
     !.entries = [k \in DOMAIN entries |->
        [entries[k] EXCEPT !.offset = IF k \in DOMAIN at THEN at[k] ELSE 2 * (k - 1)]],
     !.directory_offset = end]
Descriptors == {{}, {1}, {2}, {1, 2}}
Ranges ==
  {Moved([Complete EXCEPT ![4] = [@ EXCEPT !.descriptor = with[1], !.descriptors = d],
                          ![5] = [@ EXCEPT !.descriptor = with[2],
                                           !.descriptors = {1, 2}]],
         4 :> at[1] @@ 5 :> at[2], end) :
     at \in (5..11) \X (5..11), with \in BOOLEAN \X BOOLEAN, d \in Descriptors,
     end \in 12..14}
  \cup
  {Moved(Append(Complete, Other), 4 :> at[1] @@ 5 :> at[2] @@ 6 :> at[3], 12) :
     at \in (5..11) \X (5..11) \X (5..11)}

Deflated(e, outputs, ending, file_size, crc) ==
  [e EXCEPT !.method = "deflated", !.outputs = outputs, !.ending = ending,
            !.file_size = file_size, !.crc = crc]
With(e) == Archive(<<e>> \o RemoveAt(Complete, 3))

Payloads ==
  {With(Deflated(Executable, outputs, ending, size, TRUE)) :
     outputs \in BoundedSeq({0, 1, 3, Corrupt}, 4), ending \in 1..5,
     size \in 1..6}
  \cup
  {With(Deflated(Executable, outputs, 2, size, FALSE)) :
     outputs \in BoundedSeq({0, 1, 3}, 2), size \in 1..6}

Sizes ==
  {Archive(<<Deflated(Executable, <<out[1]>>, 1, size[1], TRUE),
             Deflated(Other, <<out[2]>>, 1, size[2], TRUE)>>
           \o RemoveAt(Complete, 3)) :
     out \in (1..3) \X (1..4), size \in (0..4) \X (0..4)}

Directories ==
  {[Archive(SubSeq(Complete \o <<Other, Third, File(<<"x">>)>>, 1, n))
    EXCEPT !.declared = declared, !.size = size, !.directory_size = size + more,
           !.adjacent = adjacent, !.directory_offset = 16] :
     n \in 4..8, declared \in 4..8, size \in 4..8, more \in {0, 2, 3},
     adjacent \in BOOLEAN}
  \cup
  {[Archive(Complete) EXCEPT !.ends = ends, !.coherent = coherent] :
     ends \in BoundedSeq(BOOLEAN, 2), coherent \in BOOLEAN}
  \cup
  {[Archive(Complete) EXCEPT !.regular = regular, !.readable = readable,
                             !.unchanged = unchanged, !.length = length] :
     regular \in BOOLEAN, readable \in BOOLEAN, unchanged \in BOOLEAN,
     length \in {0, 30, 40, 41}}

Flags ==
  {With([Executable EXCEPT
           !.method = method, !.flags = flags, !.safe = safe, !.parses = parses,
           !.agrees = agrees, !.sentinels = n, !.zip64 = zip64]) :
     method \in {"stored", "deflated", "other"},
     flags \in {{}, {"utf8"}, {"options"}, {"encrypted"}}, safe \in BOOLEAN,
     parses \in BOOLEAN, agrees \in BOOLEAN, n \in 0..2, zip64 \in BoundedSeq(0..2, 2)}

\* TLC sorts a set to count it, and finds out quickly what is in a sorted set.
Sorted(S) == IF Cardinality(S) > 0 THEN S ELSE {}
Both(S, T) == Sorted(S) \cup Sorted(T)
MCArchives ==
  Both(Both(Both(Shapes, Contents), Both(Ranges, Payloads)),
       Both(Sizes, Both(Directories, Flags)))
=============================================================================
