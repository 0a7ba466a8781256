---------------------------- MODULE LogTailProofs ----------------------------
(***************************************************************************)
(* Theorems about LogTail, for every number of lines and rotations, and    *)
(* for both ways of waiting.                                               *)
(***************************************************************************)
EXTENDS LogTail, SequenceTheorems, FiniteSetTheorems, TLAPS

LEMMA ConstantTypes == MaxLines \in Nat /\ MaxRotations \in Nat
  BY LogTailAssumption DEF LogTailAssumption

-----------------------------------------------------------------------------
(* The inductive invariant.                                                *)

\* The file at the log's path is the newest, and syslog has not yet written to a
\* file newer than its own.
Files ==
  /\ path # NoFile => path = Len(content)
  /\ \A f \in DOMAIN content : f > syslog => content[f] = <<>>

\* Numbers run on without a gap inside a file, and only grow from file to file;
\* the last line written is the last of syslog's file.
Numbered ==
  /\ IsFiniteSet(Stored)
  /\ \A f \in DOMAIN content : \A i \in DOMAIN content[f] :
       i <= content[f][i] /\ content[f][i] <= Written
  /\ \A f \in DOMAIN content : \A i \in DOMAIN content[f] :
       i > 1 => content[f][i] = content[f][i - 1] + 1
  /\ \A f, g \in DOMAIN content : \A i \in DOMAIN content[f], j \in DOMAIN content[g] :
       f < g => content[f][i] < content[g][j]
  /\ content[syslog] # <<>> => content[syslog][Len(content[syslog])] = Written

\* Where the tail is going on from: the last line handled is the one before its
\* position or, at the start of a file, in an older file.
Reading ==
  /\ tail \notin {"start", "dead"} => fh.file # NoFile
  /\ tail = "start" => fh.file = NoFile
  /\ fh.file = NoFile => handled = <<>>
  /\ tail = "reopen" => fh.file < Len(content)
  /\ handled # <<>> =>
       \/ fh.pos > 0 /\ handled[Len(handled)] = content[fh.file][fh.pos]
       \/ /\ fh.pos = 0
          /\ \E f \in DOMAIN content : \E i \in DOMAIN content[f] :
               f < fh.file /\ handled[Len(handled)] = content[f][i]

IInv == TypeOK /\ Files /\ Numbered /\ Reading /\ HandledInOrder

\* What the type part says of the files.
LEMMA ContentFacts ==
  ASSUME TypeOK
  PROVE  /\ Len(content) \in Nat /\ DOMAIN content = 1 .. Len(content)
         /\ syslog \in DOMAIN content /\ path \in Nat
         /\ \A f \in DOMAIN content :
              /\ content[f] \in Seq(Lines)
              /\ Len(content[f]) \in Nat /\ DOMAIN content[f] = 1 .. Len(content[f])
              /\ content[f] # <<>> <=> Len(content[f]) > 0
              /\ \A i \in DOMAIN content[f] : content[f][i] \in Lines /\ content[f][i] \in Nat
<1>1. content \in Seq(Seq(Lines)) /\ syslog \in 1 .. Len(content) /\ path \in 0 .. Len(content)
  BY DEF TypeOK
<1>2. Len(content) \in Nat /\ DOMAIN content = 1 .. Len(content)
  BY <1>1, LenProperties
<1>3. ASSUME NEW f \in DOMAIN content
      PROVE  /\ content[f] \in Seq(Lines)
             /\ Len(content[f]) \in Nat /\ DOMAIN content[f] = 1 .. Len(content[f])
             /\ content[f] # <<>> <=> Len(content[f]) > 0
             /\ \A i \in DOMAIN content[f] : content[f][i] \in Lines /\ content[f][i] \in Nat
  <2>1. content[f] \in Seq(Lines)
    BY <1>1, <1>2, ElementOfSeq
  <2>2. Len(content[f]) \in Nat /\ DOMAIN content[f] = 1 .. Len(content[f])
    BY <2>1, LenProperties
  <2>3. content[f] # <<>> <=> Len(content[f]) > 0
    BY <2>1, <2>2, EmptySeq
  <2>4. \A i \in DOMAIN content[f] : content[f][i] \in Lines
    BY <2>1, <2>2, ElementOfSeq
  <2> QED
    BY <2>1, <2>2, <2>3, <2>4 DEF Lines
<1> QED
  BY <1>1, <1>2, <1>3

LEMMA StoredElements ==
  \A f, i : <<f, i>> \in Stored <=> f \in DOMAIN content /\ i \in DOMAIN content[f]
  BY DEF Stored

LEMMA WrittenType ==
  ASSUME IsFiniteSet(Stored)
  PROVE  Written \in Nat
  BY FS_CardinalityType DEF Written

LEMMA InitInv == Init => IInv
<1> SUFFICES ASSUME Init PROVE IInv
  OBVIOUS
<1>1. /\ content = <<<<>>>> /\ path = 1 /\ syslog = 1 /\ handled = <<>>
      /\ fh = [file |-> 0, pos |-> 0, closed |-> FALSE] /\ tail = "start"
  BY DEF Init, NoFile
<1>2. <<>> \in Seq(Lines) /\ Len(<<>>) = 0 /\ DOMAIN <<>> = {}
  BY EmptySeq
<1>3. content \in Seq(Seq(Lines)) /\ Len(content) = 1 /\ DOMAIN content = {1} /\ content[1] = <<>>
  BY <1>1, <1>2
<1>4. Stored = {}
  BY <1>2, <1>3 DEF Stored
<1>5. TypeOK
  <2>1. /\ path \in 0 .. Len(content) /\ syslog \in 1 .. Len(content)
        /\ fh.file \in 0 .. Len(content) /\ fh.pos \in 0 .. MaxLines /\ fh.closed \in BOOLEAN
    BY <1>1, <1>3, ConstantTypes
  <2>2. fh \in [file : 0 .. Len(content), pos : 0 .. MaxLines, closed : BOOLEAN]
    BY <1>1, <2>1
  <2>3. handled \in Seq(Lines) /\ fh.file = NoFile
    BY <1>1, <1>2 DEF NoFile
  <2> QED
    BY <1>1, <1>3, <2>1, <2>2, <2>3 DEF Init, TypeOK, Places
<1>6. Files
  BY <1>1, <1>3 DEF Files
<1>7. Numbered
  BY <1>1, <1>2, <1>3, <1>4, FS_EmptySet DEF Numbered
<1>8. Reading
  BY <1>1 DEF Reading, NoFile
<1>9. HandledInOrder
  BY <1>1, <1>2 DEF HandledInOrder
<1> QED
  BY <1>5, <1>6, <1>7, <1>8, <1>9 DEF IInv

\* Files only grow, at their end: whatever is said of a line that is in a file
\* stays true of it.
Grows ==
  /\ Len(content') \in Nat /\ Len(content) <= Len(content') /\ DOMAIN content \subseteq DOMAIN content'
  /\ \A f \in DOMAIN content :
       /\ Len(content[f]) <= Len(content'[f]) /\ DOMAIN content[f] \subseteq DOMAIN content'[f]
       /\ \A i \in DOMAIN content[f] : content'[f][i] = content[f][i]

LEMMA TailStands ==
  ASSUME TypeOK, Reading, HandledInOrder, Grows, UNCHANGED <<fh, handled>>,
         tail' = tail
  PROVE  /\ Reading' /\ HandledInOrder'
         /\ fh \in [file : 0 .. Len(content'), pos : 0 .. MaxLines, closed : BOOLEAN]
         /\ fh.file # NoFile => fh.pos <= Len(content'[fh.file])
<1>1. /\ Len(content) \in Nat /\ DOMAIN content = 1 .. Len(content)
      /\ \A f \in DOMAIN content : Len(content[f]) \in Nat /\ DOMAIN content[f] = 1 .. Len(content[f])
  BY ContentFacts
<1>2. /\ fh \in [file : 0 .. Len(content), pos : 0 .. MaxLines, closed : BOOLEAN]
      /\ fh.file # NoFile => fh.file \in DOMAIN content /\ fh.pos <= Len(content[fh.file])
  BY <1>1 DEF TypeOK, NoFile
<1>3. fh \in [file : 0 .. Len(content'), pos : 0 .. MaxLines, closed : BOOLEAN]
  <2>1. 0 .. Len(content) \subseteq 0 .. Len(content')
    BY <1>1 DEF Grows
  <2> QED
    BY <1>2, <2>1
<1>4. fh.file # NoFile => fh.pos <= Len(content'[fh.file])
  <2> SUFFICES ASSUME fh.file # NoFile PROVE fh.pos <= Len(content'[fh.file])
    OBVIOUS
  <2>1. fh.pos = 0 \/ fh.pos \in DOMAIN content[fh.file]
    BY <1>1, <1>2
  <2>2. Len(content[fh.file]) <= Len(content'[fh.file]) /\ Len(content[fh.file]) \in Nat
        /\ DOMAIN content[fh.file] \subseteq DOMAIN content'[fh.file]
    BY <1>1, <1>2 DEF Grows
  <2> QED
    BY <1>2, <2>2
<1>5. HandledInOrder'
  <2> SUFFICES ASSUME NEW i \in DOMAIN handled, i > 1
               PROVE  \/ handled[i] = handled[i - 1] + 1
                      \/ /\ handled[i] > handled[i - 1]
                         /\ \E f \in DOMAIN content' : content'[f] # <<>> /\ content'[f][1] = handled[i]
    BY DEF HandledInOrder
  <2>1. CASE handled[i] = handled[i - 1] + 1
    BY <2>1
  <2>2. CASE /\ handled[i] > handled[i - 1]
             /\ \E f \in DOMAIN content : content[f] # <<>> /\ content[f][1] = handled[i]
    <3>1. PICK f \in DOMAIN content : content[f] # <<>> /\ content[f][1] = handled[i]
      BY <2>2
    <3>2. 1 \in DOMAIN content[f]
      BY <1>1, <3>1, ContentFacts
    <3>3. f \in DOMAIN content' /\ content'[f][1] = handled[i] /\ 1 \in DOMAIN content'[f]
      BY <3>1, <3>2 DEF Grows
    <3>4. content'[f] # <<>>
      BY <3>3, EmptySeq
    <3> QED
      BY <2>2, <3>3, <3>4
  <2> QED
    BY <2>1, <2>2 DEF HandledInOrder
<1>6. Reading'
  <2>1. tail = "reopen" => fh.file < Len(content')
    <3>1. fh.file \in Nat
      BY <1>1, <1>2
    <3> QED
      BY <1>1, <3>1 DEF Reading, Grows
  <2>2. ASSUME handled # <<>>
        PROVE  \/ fh.pos > 0 /\ handled[Len(handled)] = content'[fh.file][fh.pos]
               \/ /\ fh.pos = 0
                  /\ \E f \in DOMAIN content' : \E i \in DOMAIN content'[f] :
                       f < fh.file /\ handled[Len(handled)] = content'[f][i]
    <3>1. CASE fh.pos > 0 /\ handled[Len(handled)] = content[fh.file][fh.pos]
      <4>1. fh.file \in DOMAIN content /\ fh.pos \in DOMAIN content[fh.file]
        BY <1>1, <1>2, <2>2, <3>1 DEF Reading
      <4> QED
        BY <3>1, <4>1 DEF Grows
    <3>2. CASE /\ fh.pos = 0
               /\ \E f \in DOMAIN content : \E i \in DOMAIN content[f] :
                    f < fh.file /\ handled[Len(handled)] = content[f][i]
      BY <3>2 DEF Grows
    <3> QED
      BY <2>2, <3>1, <3>2 DEF Reading
  <2> QED
    BY <2>1, <2>2 DEF Reading
<1> QED
  BY <1>3, <1>4, <1>5, <1>6

-----------------------------------------------------------------------------
(* syslog and logrotate.                                                   *)

\* A line written is one more, at the end of syslog's file.
LEMMA WriteFacts ==
  ASSUME TypeOK, Numbered, Write
  PROVE  /\ Len(content') = Len(content) /\ DOMAIN content' = DOMAIN content
         /\ content' \in Seq(Seq(Lines))
         /\ Written \in Nat /\ Written + 1 \in Lines
         /\ \A f \in DOMAIN content : f # syslog => content'[f] = content[f]
         /\ content'[syslog] = Append(content[syslog], Written + 1)
         /\ Len(content'[syslog]) = Len(content[syslog]) + 1
         /\ DOMAIN content'[syslog] = 1 .. Len(content[syslog]) + 1
         /\ \A i \in DOMAIN content[syslog] : content'[syslog][i] = content[syslog][i]
         /\ content'[syslog][Len(content[syslog]) + 1] = Written + 1
<1>1. Written \in Nat /\ Written + 1 \in Lines
  BY WrittenType, ConstantTypes DEF Numbered, Write, Lines
<1>2. content \in Seq(Seq(Lines)) /\ syslog \in 1 .. Len(content) /\ content[syslog] \in Seq(Lines)
      /\ DOMAIN content[syslog] = 1 .. Len(content[syslog])
  BY ContentFacts DEF TypeOK
<1> DEFINE longer == Append(content[syslog], Written + 1)
<1>3. /\ longer \in Seq(Lines) /\ Len(longer) = Len(content[syslog]) + 1
      /\ \A i \in 1 .. Len(content[syslog]) : longer[i] = content[syslog][i]
      /\ longer[Len(content[syslog]) + 1] = Written + 1
  BY <1>1, <1>2, AppendProperties
<1>4. DOMAIN longer = 1 .. Len(content[syslog]) + 1
  BY <1>3, LenProperties
<1>5. content' = [content EXCEPT ![syslog] = longer]
  BY DEF Write
<1> HIDE DEF longer
<1>6. /\ content' \in Seq(Seq(Lines)) /\ Len(content') = Len(content)
      /\ \A f \in 1 .. Len(content) : content'[f] = IF f = syslog THEN longer ELSE content[f]
  BY <1>2, <1>3, <1>5, ExceptSeq
<1>7. DOMAIN content' = DOMAIN content /\ DOMAIN content = 1 .. Len(content)
  BY <1>2, <1>6, LenProperties
<1> QED
  BY <1>1, <1>2, <1>3, <1>4, <1>6, <1>7 DEF longer

LEMMA WriteGrows ==
  ASSUME TypeOK, Numbered, Write
  PROVE  Grows
<1>1. ASSUME NEW f \in DOMAIN content
      PROVE  /\ Len(content[f]) <= Len(content'[f]) /\ DOMAIN content[f] \subseteq DOMAIN content'[f]
             /\ \A i \in DOMAIN content[f] : content'[f][i] = content[f][i]
  <2>1. Len(content[f]) \in Nat /\ DOMAIN content[f] = 1 .. Len(content[f])
    BY ContentFacts
  <2>2. CASE f = syslog
    BY <2>1, <2>2, WriteFacts
  <2>3. CASE f # syslog
    BY <2>1, <2>3, WriteFacts
  <2> QED
    BY <2>2, <2>3
<1> QED
  BY <1>1, WriteFacts, ContentFacts DEF Grows

LEMMA WriteNumbered ==
  ASSUME TypeOK, Files, Numbered, Write
  PROVE  Numbered'
<1> DEFINE last == Len(content[syslog]) + 1
<1>1. /\ Len(content[syslog]) \in Nat /\ syslog \in DOMAIN content /\ DOMAIN content' = DOMAIN content
      /\ DOMAIN content[syslog] = 1 .. Len(content[syslog])
      /\ DOMAIN content'[syslog] = 1 .. last /\ last \in Nat \ {0}
      /\ content'[syslog][last] = Written + 1 /\ Written \in Nat
  BY ContentFacts, WriteFacts
<1> HIDE DEF last
\* A place is an old one, with the line it had, or the one just written.
<1>2. ASSUME NEW f \in DOMAIN content', NEW i \in DOMAIN content'[f]
      PROVE  \/ /\ f \in DOMAIN content /\ i \in DOMAIN content[f] /\ content'[f][i] = content[f][i]
                /\ content[f][i] \in Nat /\ content[f][i] <= Written /\ i <= content[f][i] /\ i \in Nat
             \/ f = syslog /\ i = last
  <2>1. ASSUME f \in DOMAIN content, i \in DOMAIN content[f]
        PROVE  /\ content[f][i] \in Nat /\ content[f][i] <= Written
               /\ i <= content[f][i] /\ i \in Nat
    BY <2>1, ContentFacts DEF Numbered
  <2>2. CASE f # syslog
    <3>1. f \in DOMAIN content /\ content'[f] = content[f]
      BY <1>1, <2>2, WriteFacts
    <3> QED
      BY <2>1, <3>1
  <2>3. CASE f = syslog /\ i # last
    <3>1. i \in 1 .. last
      BY <1>1, <2>3
    <3>2. i \in DOMAIN content[syslog]
      BY <1>1, <2>3, <3>1 DEF last
    <3>3. content'[syslog][i] = content[syslog][i]
      BY <3>2, WriteFacts
    <3> QED
      BY <1>1, <2>1, <2>3, <3>2, <3>3
  <2> QED
    BY <2>2, <2>3
<1>3. IsFiniteSet(Stored') /\ Written' = Written + 1
  <2>1. Stored' = Stored \cup {<<syslog, last>>}
    <3>1. \A f, i : <<f, i>> \in Stored' <=> f \in DOMAIN content' /\ i \in DOMAIN content'[f]
      BY DEF Stored
    <3>2. \A f, i : <<f, i>> \in Stored' <=> <<f, i>> \in Stored \/ (f = syslog /\ i = last)
      <4>1. \A f \in DOMAIN content : DOMAIN content[f] \subseteq DOMAIN content'[f]
        BY WriteGrows DEF Grows
      <4>2. syslog \in DOMAIN content' /\ last \in DOMAIN content'[syslog]
        BY <1>1
      <4> QED
        BY <1>1, <1>2, <3>1, <4>1, <4>2, StoredElements
    <3>3. \A p \in Stored \cup Stored' : p = <<p[1], p[2]>>
      BY DEF Stored
    <3> QED
      BY <3>2, <3>3
  <2>2. <<syslog, last>> \notin Stored
    <3>1. last \notin DOMAIN content[syslog]
      BY <1>1 DEF last
    <3> QED
      BY <3>1, StoredElements
  <2> QED
    BY <2>1, <2>2, FS_AddElement DEF Numbered, Written
<1>4. content[syslog] = <<>> <=> last = 1
  BY <1>1, ContentFacts DEF last
<1>5. last <= Written + 1
  <2>1. CASE last = 1
    BY <1>1, <2>1
  <2>2. CASE last # 1
    <3>1. last - 1 \in DOMAIN content[syslog] /\ last - 1 \in Nat /\ last - 1 = Len(content[syslog])
      BY <1>1, <2>2 DEF last
    <3>2. last - 1 <= content[syslog][last - 1] /\ content[syslog][last - 1] <= Written
          /\ content[syslog][last - 1] \in Nat
      BY <1>1, <3>1, ContentFacts DEF Numbered
    <3> QED
      BY <1>1, <3>1, <3>2
  <2> QED
    BY <2>1, <2>2
<1>6. ASSUME NEW f \in DOMAIN content', NEW i \in DOMAIN content'[f]
      PROVE  i <= content'[f][i] /\ content'[f][i] <= Written'
  BY <1>1, <1>2, <1>3, <1>5
<1>7. ASSUME NEW f \in DOMAIN content', NEW i \in DOMAIN content'[f], i > 1
      PROVE  content'[f][i] = content'[f][i - 1] + 1
  <2>1. CASE f = syslog /\ i = last
    <3>1. last - 1 \in DOMAIN content[syslog] /\ last - 1 = Len(content[syslog])
      BY <1>1, <1>7, <2>1 DEF last
    <3>2. content[syslog][last - 1] = Written
      BY <1>4, <1>7, <2>1, <3>1 DEF Numbered
    <3> QED
      BY <1>1, <2>1, <3>1, <3>2, WriteFacts
  <2>2. CASE f \in DOMAIN content /\ i \in DOMAIN content[f] /\ content'[f][i] = content[f][i]
    <3>1. i - 1 \in DOMAIN content[f]
      BY <1>7, <2>2, ContentFacts
    <3>2. content'[f][i - 1] = content[f][i - 1]
      BY <2>2, <3>1, WriteGrows DEF Grows
    <3> QED
      BY <1>7, <2>2, <3>2 DEF Numbered
  <2> QED
    BY <1>2, <2>1, <2>2
<1>8. ASSUME NEW f \in DOMAIN content', NEW g \in DOMAIN content',
             NEW i \in DOMAIN content'[f], NEW j \in DOMAIN content'[g], f < g
      PROVE  content'[f][i] < content'[g][j]
  <2>0. f \in Nat /\ g \in Nat /\ syslog \in Nat
    BY <1>1, ContentFacts
  <2>1. CASE f = syslog /\ i = last
    <3>1. g # syslog /\ g > syslog /\ content[g] = <<>>
      BY <1>1, <1>8, <2>0, <2>1 DEF Files
    <3>2. content'[g] = <<>>
      BY <1>1, <3>1, WriteFacts
    <3> QED
      BY <3>2, EmptySeq
  <2>2. CASE /\ f \in DOMAIN content /\ i \in DOMAIN content[f] /\ content'[f][i] = content[f][i]
             /\ content[f][i] \in Nat /\ content[f][i] <= Written
    <3>1. CASE g = syslog /\ j = last
      BY <1>1, <2>2, <3>1
    <3>2. CASE g \in DOMAIN content /\ j \in DOMAIN content[g] /\ content'[g][j] = content[g][j]
      BY <1>8, <2>2, <3>2 DEF Numbered
    <3> QED
      BY <1>2, <3>1, <3>2
  <2> QED
    BY <1>2, <2>1, <2>2
<1>9. content'[syslog][Len(content'[syslog])] = Written' /\ syslog' = syslog
  BY <1>1, <1>3, WriteFacts DEF last, Write
<1> QED
  BY <1>3, <1>6, <1>7, <1>8, <1>9 DEF Numbered

LEMMA WriteInv ==
  ASSUME IInv, Write
  PROVE  IInv'
<1> USE DEF IInv
<1>1. /\ notice' = (notice \/ syslog = path)
      /\ UNCHANGED <<inotify, path, syslog, fh, tail, stopping, handled>>
  BY DEF Write
<1>2. Reading' /\ HandledInOrder'
      /\ fh \in [file : 0 .. Len(content'), pos : 0 .. MaxLines, closed : BOOLEAN]
      /\ (fh.file # NoFile => fh.pos <= Len(content'[fh.file]))
  BY <1>1, WriteGrows, TailStands
<1>3. Numbered'
  BY WriteNumbered
<1>4. Files'
  <2>1. \A f \in DOMAIN content : f > syslog => f # syslog
    BY ContentFacts
  <2> QED
    BY <1>1, <2>1, WriteFacts DEF Files
<1>5. TypeOK'
  <2>1. notice' \in BOOLEAN
    BY <1>1 DEF TypeOK
  <2> QED
    BY <1>1, <1>2, <2>1, WriteFacts DEF TypeOK
<1> QED
  BY <1>2, <1>3, <1>4, <1>5

LEMMA CreateInv ==
  ASSUME IInv, Create
  PROVE  IInv'
<1> USE DEF IInv
<1>1. /\ content' = Append(content, <<>>) /\ path' = Len(content')
      /\ UNCHANGED <<inotify, syslog, notice, fh, tail, stopping, handled>>
  BY DEF Create
<1>2. /\ content \in Seq(Seq(Lines)) /\ <<>> \in Seq(Lines) /\ Len(content) \in Nat
      /\ DOMAIN content = 1 .. Len(content) /\ syslog \in 1 .. Len(content)
  BY ContentFacts, EmptySeq DEF TypeOK
<1>3. /\ content' \in Seq(Seq(Lines)) /\ Len(content') = Len(content) + 1
      /\ \A f \in 1 .. Len(content) : content'[f] = content[f]
      /\ content'[Len(content) + 1] = <<>>
  BY <1>1, <1>2, AppendProperties
<1>4. DOMAIN content' = 1 .. Len(content) + 1 /\ DOMAIN <<>> = {}
  BY <1>3, LenProperties, EmptySeq
<1>5. Grows
  <2>1. ASSUME NEW f \in DOMAIN content
        PROVE  Len(content[f]) \in Nat /\ content'[f] = content[f]
    <3>1. Len(content[f]) \in Nat
      BY ContentFacts
    <3>2. f \in 1 .. Len(content)
      BY <1>2
    <3> QED
      BY <1>3, <3>1, <3>2
  <2>2. Len(content') \in Nat /\ Len(content) <= Len(content') /\ DOMAIN content \subseteq DOMAIN content'
    BY <1>2, <1>3, <1>4
  <2>3. \A f \in DOMAIN content : Len(content[f]) <= Len(content'[f])
    BY <2>1
  <2> QED
    BY <2>1, <2>2, <2>3 DEF Grows
<1>6. Reading' /\ HandledInOrder'
      /\ fh \in [file : 0 .. Len(content'), pos : 0 .. MaxLines, closed : BOOLEAN]
      /\ (fh.file # NoFile => fh.pos <= Len(content'[fh.file]))
  BY <1>1, <1>5, TailStands
<1>7. TypeOK'
  <2>1. path' \in 0 .. Len(content')
    BY <1>1, <1>2, <1>3
  <2>2. syslog' \in 1 .. Len(content')
    BY <1>1, <1>2, <1>3
  <2> QED
    BY <1>1, <1>3, <1>6, <2>1, <2>2 DEF TypeOK
<1>8. Files'
  <2>1. ASSUME NEW f \in DOMAIN content', f > syslog
        PROVE  content'[f] = <<>>
    <3>1. CASE f \in 1 .. Len(content)
      BY <1>2, <1>3, <2>1, <3>1 DEF Files
    <3>2. CASE f = Len(content) + 1
      BY <1>3, <3>2
    <3>3. f \in 1 .. Len(content) \/ f = Len(content) + 1
      <4>1. ASSUME NEW n \in Nat, NEW x \in 1 .. n + 1
            PROVE  x \in 1 .. n \/ x = n + 1
        BY <4>1
      <4>2. f \in 1 .. Len(content) + 1
        BY <1>4, <2>1
      <4> QED
        BY <1>2, <4>1, <4>2
    <3> QED
      BY <3>1, <3>2, <3>3
  <2> QED
    BY <1>1, <2>1 DEF Files
<1>9. \A f \in DOMAIN content' : \A i \in DOMAIN content'[f] :
        f \in DOMAIN content /\ i \in DOMAIN content[f] /\ content'[f] = content[f]
  <2> SUFFICES ASSUME NEW f \in DOMAIN content', NEW i \in DOMAIN content'[f]
               PROVE  f \in DOMAIN content /\ i \in DOMAIN content[f] /\ content'[f] = content[f]
    OBVIOUS
  <2>1. f # Len(content) + 1
    BY <1>3, <1>4
  <2>2. f \in 1 .. Len(content) + 1
    BY <1>4
  <2>3. f \in 1 .. Len(content)
    <3>1. ASSUME NEW n \in Nat, NEW x \in 1 .. n + 1, x # n + 1
          PROVE  x \in 1 .. n
      BY <3>1
    <3> QED
      BY <1>2, <2>1, <2>2, <3>1
  <2> QED
    BY <1>2, <1>3, <2>3
<1>10. Stored' = Stored
  <2>1. \A f \in DOMAIN content : DOMAIN content'[f] = DOMAIN content[f] /\ f \in DOMAIN content'
    BY <1>2, <1>3, <1>4
  <2> QED
    BY <1>9, <2>1 DEF Stored
<1>11. Numbered'
  <2>1. Written' = Written /\ syslog' = syslog /\ content'[syslog] = content[syslog]
    BY <1>1, <1>2, <1>3, <1>10 DEF Written
  <2> QED
    BY <1>9, <1>10, <2>1 DEF Numbered
<1> QED
  BY <1>6, <1>7, <1>8, <1>11

LEMMA RenameInv ==
  ASSUME IInv, Rename
  PROVE  IInv'
<1> USE DEF IInv
<1>1. path' = 0 /\ UNCHANGED <<inotify, content, syslog, notice, fh, tail, stopping, handled>>
  BY DEF Rename, NoFile
<1>2. TypeOK'
  BY <1>1, ContentFacts DEF TypeOK
<1>3. Files' /\ Numbered' /\ Reading' /\ HandledInOrder'
  BY <1>1 DEF Files, Numbered, Stored, Written, Reading, HandledInOrder, NoFile
<1> QED
  BY <1>2, <1>3

\* syslog's new file is the newest, and empty.
LEMMA SyslogReopensInv ==
  ASSUME IInv, SyslogReopens
  PROVE  IInv'
<1> USE DEF IInv
<1>1. /\ syslog' = path /\ path # 0 /\ path # syslog
      /\ UNCHANGED <<inotify, content, path, notice, fh, tail, stopping, handled>>
  BY DEF SyslogReopens, NoFile
<1>2. path = Len(content) /\ path \in DOMAIN content /\ path > syslog
  BY <1>1, ContentFacts DEF Files, NoFile
<1>3. content[path] = <<>>
  BY <1>2 DEF Files
<1>4. TypeOK'
  BY <1>1, <1>2, ContentFacts DEF TypeOK
<1>5. Files'
  BY <1>1, <1>2, ContentFacts DEF Files
<1>6. Numbered'
  BY <1>1, <1>3 DEF Numbered, Stored, Written
<1>7. Reading' /\ HandledInOrder'
  BY <1>1 DEF Reading, HandledInOrder
<1> QED
  BY <1>4, <1>5, <1>6, <1>7

-----------------------------------------------------------------------------
(* The tail thread.                                                        *)

\* It leaves the files as they are.
LEMMA WorldStands ==
  ASSUME Files, Numbered, UNCHANGED world
  PROVE  Files' /\ Numbered'
  BY DEF world, Files, Numbered, Stored, Written

LEMMA StartInv ==
  ASSUME IInv, Start
  PROVE  IInv'
<1> USE DEF IInv
<1>1. /\ tail = "start" /\ UNCHANGED <<inotify, content, path, syslog, notice, stopping, handled>>
      /\ UNCHANGED world
  BY DEF Start, world
<1>2. Files' /\ Numbered'
  BY <1>1, WorldStands
<1>3. CASE tail' = "dead" /\ fh' = fh
  <2>1. TypeOK'
    BY <1>1, <1>3 DEF TypeOK, Places
  <2>2. Reading' /\ HandledInOrder'
    BY <1>1, <1>3 DEF Reading, HandledInOrder
  <2> QED
    BY <1>2, <2>1, <2>2
<1>4. CASE /\ path # NoFile /\ tail' = "wait"
           /\ fh' = [file |-> path, pos |-> Len(content[path]), closed |-> FALSE]
  <2>1. path \in DOMAIN content /\ path \in 1 .. Len(content) /\ path \in 0 .. Len(content)
    BY <1>4, ContentFacts DEF Files, NoFile
  <2>2. Len(content[path]) \in 0 .. MaxLines /\ Len(content[path]) \in Nat
    <3>1. Len(content[path]) \in Nat /\ DOMAIN content[path] = 1 .. Len(content[path])
      BY <2>1, ContentFacts
    <3>2. CASE Len(content[path]) = 0
      BY <3>2, ConstantTypes
    <3>3. CASE Len(content[path]) # 0
      <4>1. Len(content[path]) \in DOMAIN content[path]
        BY <3>1, <3>3
      <4>2. /\ Len(content[path]) <= content[path][Len(content[path])]
            /\ content[path][Len(content[path])] \in Lines
        BY <2>1, <4>1, ContentFacts DEF Numbered
      <4> QED
        BY <3>1, <4>2, ConstantTypes DEF Lines
    <3> QED
      BY <3>1, <3>2, <3>3
  <2>3. handled = <<>>
    BY <1>1 DEF Reading, TypeOK
  <2>4. TypeOK'
    <3>1. fh' \in [file : 0 .. Len(content), pos : 0 .. MaxLines, closed : BOOLEAN]
      BY <1>4, <2>1, <2>2
    <3>2. fh'.pos <= Len(content[fh'.file])
      BY <1>4, <2>2
    <3> QED
      BY <1>1, <1>4, <3>1, <3>2 DEF TypeOK, Places
  <2>5. Reading' /\ HandledInOrder'
    BY <1>1, <1>4, <2>3 DEF Reading, HandledInOrder
  <2> QED
    BY <1>2, <2>4, <2>5
<1> QED
  BY <1>3, <1>4 DEF Start

\* One line: the successor of the last one, or the first of a newer file.
LEMMA ReadLineInv ==
  ASSUME IInv, ReadLine
  PROVE  IInv'
<1> USE DEF IInv
<1> DEFINE file == fh.file
           next == fh.pos + 1
           line == content[file][next]
<1>1. /\ tail = "drain" /\ fh.pos < Len(content[file])
      /\ fh' = [fh EXCEPT !.pos = next]
      /\ handled' = Append(handled, line)
      /\ UNCHANGED <<inotify, content, path, syslog, notice, tail, stopping>> /\ UNCHANGED world
  BY DEF ReadLine, world
<1>2. /\ file \in DOMAIN content /\ file \in 1 .. Len(content) /\ file # NoFile
      /\ fh \in [file : 0 .. Len(content), pos : 0 .. MaxLines, closed : BOOLEAN]
      /\ fh.pos \in Nat
  BY <1>1, ContentFacts DEF Reading, TypeOK, NoFile
<1>3. /\ DOMAIN content[file] = 1 .. Len(content[file]) /\ Len(content[file]) \in Nat
      /\ next \in DOMAIN content[file] /\ next \in Nat \ {0}
      /\ content[file] # <<>> /\ 1 \in DOMAIN content[file]
  BY <1>1, <1>2, ContentFacts
<1>4. line \in Lines /\ line \in Nat /\ next <= line
  BY <1>2, <1>3, ContentFacts DEF Numbered
<1>5. handled \in Seq(Lines) /\ Len(handled) \in Nat /\ DOMAIN handled = 1 .. Len(handled)
  BY LenProperties DEF TypeOK
<1> HIDE DEF file, next, line
<1>6. /\ handled' \in Seq(Lines) /\ Len(handled') = Len(handled) + 1
      /\ DOMAIN handled' = 1 .. Len(handled) + 1
      /\ \A i \in 1 .. Len(handled) : handled'[i] = handled[i]
      /\ handled'[Len(handled) + 1] = line
  BY <1>1, <1>4, <1>5, AppendProperties, LenProperties
<1>7. fh'.file = file /\ fh'.pos = next /\ next = fh.pos + 1 /\ line = content[file][next]
  BY <1>1, <1>2 DEF file, next, line
<1>8. TypeOK'
  <2>1. next \in 0 .. MaxLines
    BY <1>3, <1>4, ConstantTypes DEF Lines
  <2>2. fh' \in [file : 0 .. Len(content), pos : 0 .. MaxLines, closed : BOOLEAN]
    BY <1>1, <1>2, <2>1
  <2>3. fh'.pos <= Len(content[fh'.file])
    BY <1>3, <1>7
  <2> QED
    BY <1>1, <1>6, <2>2, <2>3 DEF TypeOK
<1>9. Files' /\ Numbered'
  BY <1>1, WorldStands
<1>10. Reading'
  <2>1. handled'[Len(handled')] = content[file][next] /\ next > 0
    BY <1>3, <1>6, <1>7
  <2> QED
    BY <1>1, <1>2, <1>7, <2>1 DEF Reading
<1>11. ASSUME handled # <<>>
       PROVE  \/ line = handled[Len(handled)] + 1
              \/ line > handled[Len(handled)] /\ content[file][1] = line
  <2>1. CASE fh.pos > 0 /\ handled[Len(handled)] = content[file][fh.pos]
    <3>1. next > 1 /\ next - 1 = fh.pos
      BY <1>2, <1>7, <2>1
    <3> QED
      BY <1>2, <1>3, <1>7, <2>1, <3>1 DEF Numbered
  <2>2. CASE /\ fh.pos = 0
             /\ \E f \in DOMAIN content : \E i \in DOMAIN content[f] :
                  f < file /\ handled[Len(handled)] = content[f][i]
    <3>1. next = 1
      BY <1>7, <2>2
    <3>2. PICK f \in DOMAIN content : \E i \in DOMAIN content[f] :
            f < file /\ handled[Len(handled)] = content[f][i]
      BY <2>2
    <3>3. PICK i \in DOMAIN content[f] : f < file /\ handled[Len(handled)] = content[f][i]
      BY <3>2
    <3>4. content[f][i] < content[file][1] /\ content[f][i] \in Nat
      BY <1>2, <1>3, <3>3, ContentFacts DEF Numbered
    <3> QED
      BY <1>4, <1>7, <3>1, <3>3, <3>4
  <2> QED
    BY <1>11, <2>1, <2>2 DEF Reading, file
<1>12. HandledInOrder'
  <2> SUFFICES ASSUME NEW i \in DOMAIN handled', i > 1
               PROVE  \/ handled'[i] = handled'[i - 1] + 1
                      \/ /\ handled'[i] > handled'[i - 1]
                         /\ \E f \in DOMAIN content : content[f] # <<>> /\ content[f][1] = handled'[i]
    BY <1>1 DEF HandledInOrder
  <2>1. CASE i \in 1 .. Len(handled)
    <3>1. i - 1 \in 1 .. Len(handled)
      BY <1>5, <2>1
    <3> QED
      BY <1>5, <1>6, <2>1, <3>1 DEF HandledInOrder
  <2>2. CASE i = Len(handled) + 1
    <3>1. i - 1 = Len(handled) /\ Len(handled) \in 1 .. Len(handled) /\ handled # <<>>
      BY <1>5, <2>2, EmptySeq
    <3> QED
      BY <1>2, <1>3, <1>6, <1>11, <2>2, <3>1
  <2> QED
    BY <1>5, <1>6, <2>1, <2>2
<1> QED
  BY <1>8, <1>9, <1>10, <1>12

\* The file now at the path is newer than the one the tail has held.
LEMMA ReopenInv ==
  ASSUME IInv, Reopen
  PROVE  IInv'
<1> USE DEF IInv
<1>1. /\ tail = "reopen" /\ tail' = "wait" /\ UNCHANGED world
      /\ UNCHANGED <<inotify, content, path, syslog, notice, stopping, handled>>
  BY DEF Reopen, world
<1>2. Files' /\ Numbered' /\ HandledInOrder'
  BY <1>1, WorldStands DEF HandledInOrder
<1>3. fh.file # NoFile /\ fh.file \in DOMAIN content /\ fh.file < Len(content)
  BY <1>1, ContentFacts DEF Reading, TypeOK, NoFile
<1>4. CASE path = NoFile /\ fh' = fh
  <2>1. TypeOK'
    BY <1>1, <1>4 DEF TypeOK, Places
  <2>2. Reading'
    BY <1>1, <1>4 DEF Reading
  <2> QED
    BY <1>2, <2>1, <2>2
<1>5. CASE path # NoFile /\ fh' = [file |-> path, pos |-> 0, closed |-> FALSE]
  <2>1. path \in DOMAIN content /\ path = Len(content) /\ path \in 0 .. Len(content)
    BY <1>5, ContentFacts DEF Files, NoFile
  <2>2. TypeOK'
    <3>1. fh' \in [file : 0 .. Len(content), pos : 0 .. MaxLines, closed : BOOLEAN]
      BY <1>5, <2>1, ConstantTypes
    <3>2. fh'.pos <= Len(content[fh'.file])
      BY <1>5, <2>1, ContentFacts
    <3> QED
      BY <1>1, <3>1, <3>2 DEF TypeOK, Places
  <2>3. ASSUME handled # <<>>
        PROVE  \E f \in DOMAIN content : \E i \in DOMAIN content[f] :
                 f < path /\ handled[Len(handled)] = content[f][i]
    <3>1. CASE fh.pos > 0 /\ handled[Len(handled)] = content[fh.file][fh.pos]
      <4>1. fh.pos \in DOMAIN content[fh.file]
        BY <1>3, <3>1, ContentFacts DEF TypeOK
      <4> QED
        BY <1>3, <2>1, <3>1, <4>1
    <3>2. CASE \E f \in DOMAIN content : \E i \in DOMAIN content[f] :
                 f < fh.file /\ handled[Len(handled)] = content[f][i]
      <4>1. PICK f \in DOMAIN content : \E i \in DOMAIN content[f] :
              f < fh.file /\ handled[Len(handled)] = content[f][i]
        BY <3>2
      <4>2. PICK i \in DOMAIN content[f] : f < fh.file /\ handled[Len(handled)] = content[f][i]
        BY <4>1
      <4>3. f < path
        BY <1>3, <2>1, <4>2, ContentFacts
      <4> QED
        BY <4>2, <4>3
    <3> QED
      BY <2>3, <3>1, <3>2 DEF Reading
  <2>4. Reading'
    BY <1>1, <1>5, <2>3 DEF Reading
  <2> QED
    BY <1>2, <2>2, <2>4
<1> QED
  BY <1>4, <1>5 DEF Reopen

\* stat finds another file under the name: a newer one.
LEMMA StatInv ==
  ASSUME IInv, Stat
  PROVE  IInv'
<1> USE DEF IInv
<1>1. /\ tail = "stat" /\ UNCHANGED world
      /\ UNCHANGED <<inotify, content, path, syslog, notice, stopping, handled>>
  BY DEF Stat, world
<1>2. Files' /\ Numbered' /\ HandledInOrder'
  BY <1>1, WorldStands DEF HandledInOrder
<1>3. fh.file # NoFile /\ fh.file \in 0 .. Len(content)
      /\ fh \in [file : 0 .. Len(content), pos : 0 .. MaxLines, closed : BOOLEAN]
  BY <1>1 DEF Reading, TypeOK
<1>4. CASE tail' = "wait" /\ fh' = fh
  BY <1>1, <1>2, <1>4 DEF TypeOK, Places, Reading
<1>5. CASE path \notin {NoFile, fh.file} /\ tail' = "reopen" /\ fh' = [fh EXCEPT !.closed = TRUE]
  <2>1. fh'.file = fh.file /\ fh'.pos = fh.pos
        /\ fh' \in [file : 0 .. Len(content), pos : 0 .. MaxLines, closed : BOOLEAN]
    BY <1>3, <1>5
  <2>2. fh.file < Len(content)
    BY <1>3, <1>5, ContentFacts DEF Files
  <2>3. TypeOK'
    BY <1>1, <1>5, <2>1 DEF TypeOK, Places
  <2>4. Reading'
    BY <1>1, <1>3, <1>5, <2>1, <2>2 DEF Reading
  <2> QED
    BY <1>2, <2>3, <2>4
<1> QED
  BY <1>4, <1>5 DEF Stat

LEMMA NextInv == IInv /\ [Next]_vars => IInv'
<1> SUFFICES ASSUME IInv, [Next]_vars PROVE IInv'
  OBVIOUS
<1>1. CASE Wake \/ EndOfFile \/ ReadClosed
  <2>1. /\ tail \notin {"start", "dead"} /\ tail' \in {"wait", "drain", "stat", "stopped", "dead"}
        /\ notice' \in BOOLEAN /\ UNCHANGED world
        /\ UNCHANGED <<inotify, content, path, syslog, fh, stopping, handled>>
    BY <1>1 DEF Wake, EndOfFile, ReadClosed, world, IInv, TypeOK
  <2>2. TypeOK'
    BY <2>1 DEF IInv, TypeOK, Places
  <2>3. Reading' /\ HandledInOrder'
    BY <2>1 DEF IInv, Reading, HandledInOrder
  <2> QED
    BY <2>1, <2>2, <2>3, WorldStands DEF IInv
<1>2. CASE Stop
  <2>1. stopping' \in BOOLEAN /\ UNCHANGED world
        /\ UNCHANGED <<inotify, content, path, syslog, notice, fh, tail, handled>>
    BY <1>2 DEF Stop, world
  <2>2. TypeOK' /\ Reading' /\ HandledInOrder'
    BY <2>1 DEF IInv, TypeOK, Reading, HandledInOrder
  <2> QED
    BY <2>1, <2>2, WorldStands DEF IInv
<1>3. CASE UNCHANGED vars
  <2>1. /\ UNCHANGED world
        /\ UNCHANGED <<inotify, content, path, syslog, notice, fh, tail, stopping, handled>>
    BY <1>3 DEF vars, world
  <2>2. TypeOK' /\ Reading' /\ HandledInOrder'
    BY <2>1 DEF IInv, TypeOK, Reading, HandledInOrder
  <2> QED
    BY <2>1, <2>2, WorldStands DEF IInv
<1> QED
  BY <1>1, <1>2, <1>3, WriteInv, RenameInv, CreateInv, SyslogReopensInv, StartInv, ReadLineInv,
     StatInv, ReopenInv DEF Next, TailStep

LEMMA Invariance == Spec => []IInv
  BY InitInv, NextInv, PTL DEF Spec

-----------------------------------------------------------------------------

\* Every variable of the tail stays in its type, and its position inside the file
\* it holds.
THEOREM TypeCorrect == Spec => []TypeOK
  BY Invariance, PTL DEF IInv

\* The handlers are given lines once each and in the order syslog wrote them,
\* however often and whenever logrotate renames the log; after a rotation they go
\* on at the first line of a new file.
THEOREM LinesInOrder == Spec => []HandledInOrder
  BY Invariance, PTL DEF IInv
=============================================================================
