------------------------------- MODULE Files -------------------------------
(***************************************************************************)
(* What the file system promises its callers: a directory of names, files  *)
(* with contents of fixed length, open files that keep a file alive after  *)
(* its name is removed, executables that cannot be written while they run, *)
(* and names and contents that survive a restart at any moment.            *)
(* FileSys.tla, where all of this is made of sectors, implements it.       *)
(***************************************************************************)
EXTENDS Naturals, Sequences

CONSTANTS
    Names, Values, Sizes,   \* Values holds 0, what a new file is filled with
    Ids,                    \* identities a file may have
    NoId,
    Fds                     \* open files

VARIABLES
    names,     \* names[n]: the file called n, or NoId
    content,   \* content[o]: its values; <<>> when o is not in use
    open,      \* open[f]: the file opened as f, or NoId
    deny       \* deny[f]: f is a running executable

fvars == <<names, content, open, deny>>

Named == {names[n] : n \in Names}
Opened == {open[f] : f \in Fds}

\* The contents c of the files still in use once nm names and op opens them.
Kept(c, nm, op) ==
    [o \in Ids |-> IF \/ \E n \in Names : nm[n] = o
                      \/ \E f \in Fds : op[f] = o THEN c[o] ELSE <<>>]

Create(n, o, z) ==
    /\ names[n] = NoId
    /\ o \notin Named \cup Opened
    /\ names' = [names EXCEPT ![n] = o]
    /\ content' = [content EXCEPT ![o] = [i \in 1 .. z |-> 0]]
    /\ UNCHANGED <<open, deny>>

Open(n, f, d) ==
    /\ names[n] # NoId /\ open[f] = NoId
    /\ open' = [open EXCEPT ![f] = names[n]]
    /\ deny' = [deny EXCEPT ![f] = d]
    /\ UNCHANGED <<names, content>>

Remove(n) ==
    /\ names[n] # NoId
    /\ names' = [names EXCEPT ![n] = NoId]
    /\ content' = Kept(content, names', open)
    /\ UNCHANGED <<open, deny>>

Close(f) ==
    /\ open[f] # NoId
    /\ open' = [open EXCEPT ![f] = NoId]
    /\ deny' = [deny EXCEPT ![f] = FALSE]
    /\ content' = Kept(content, names, open')
    /\ UNCHANGED names

\* One sector of a write.
Write(f, i, v) ==
    /\ open[f] # NoId
    /\ \A g \in Fds : open[g] = open[f] => ~deny[g]
    /\ i \in DOMAIN content[open[f]]
    /\ content' = [content EXCEPT ![open[f]][i] = v]
    /\ UNCHANGED <<names, open, deny>>

\* The machine stops at any moment and is started again.
Restart ==
    /\ open' = [f \in Fds |-> NoId]
    /\ deny' = [f \in Fds |-> FALSE]
    /\ content' = Kept(content, names, open')
    /\ UNCHANGED names

Init ==
    /\ names = [n \in Names |-> NoId]
    /\ content = [o \in Ids |-> <<>>]
    /\ open = [f \in Fds |-> NoId]
    /\ deny = [f \in Fds |-> FALSE]

Next ==
    \/ \E n \in Names : Remove(n)
    \/ \E n \in Names, o \in Ids, z \in Sizes : Create(n, o, z)
    \/ \E n \in Names, f \in Fds, d \in BOOLEAN : Open(n, f, d)
    \/ \E f \in Fds : Close(f)
    \/ \E f \in Fds, v \in Values : open[f] # NoId /\
           \E i \in DOMAIN content[open[f]] : Write(f, i, v)
    \/ Restart

Spec == Init /\ [][Next]_fvars
=============================================================================
