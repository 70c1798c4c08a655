------------------------------ MODULE FileStore ------------------------------
(***************************************************************************)
(* What userfs.h promises: a flat folder of files that are sequences of    *)
(* bytes.  A file lives as long as a name or a descriptor leads to it, and *)
(* a descriptor reads or changes it if the flags it was opened with allow. *)
(***************************************************************************)
EXTENDS Integers, Sequences

CONSTANTS Files, Names, None, AnyByte, Slots, OpenFlags, MaxRequest, MaxSize

VARIABLES
    folder,    \* folder[n]: the file with the name n, or None
    content,   \* content[f]: its bytes
    opened,    \* opened[i]: the file descriptor i + 1 is open on, or None
    rights,    \* rights[i]: what it may do with the file, "read" and "write"
    position,  \* position[i]: the bytes of it that have been passed
    answer,    \* what the last call has returned
    request,   \* what it was asked to read, write or resize to, or None
    bytes,     \* the bytes it has read
    error      \* the code of the last error

files == <<folder, content, opened, rights, position>>
vars == <<files, answer, request, bytes, error>>

Init ==
    /\ folder = [n \in Names |-> None] /\ content = [f \in Files |-> <<>>]
    /\ opened = [i \in Slots |-> None] /\ rights = [i \in Slots |-> {}]
    /\ position = [i \in Slots |-> 0]
    /\ answer = 0 /\ request = None /\ bytes = <<>> /\ error = "NO_ERR"

Reached(f) == \/ \E n \in Names : folder[n] = f
              \/ \E i \in Slots : opened[i] = f

Answer(call, r) == answer' = r /\ request' = call /\ bytes' = <<>> /\ UNCHANGED error

(* A call that fails has no effect. *)
Fail(code) ==
    /\ answer' = -1 /\ request' = None /\ bytes' = <<>> /\ error' = code
    /\ UNCHANGED files

(* A name or a descriptor that leads to no file. *)
NoFile == Fail("NO_FILE")

(* There is a descriptor that may not do all that can be asked of it, or one *)
(* that may make its file too big.                                           *)
NoPermission ==
    /\ \E i \in Slots : opened[i] # None /\ rights[i] # {"read", "write"}
    /\ Fail("NO_PERMISSION")

NoMemory == (\E i \in Slots : "write" \in rights[i]) /\ Fail("NO_MEM")

(* A descriptor may do both unless its flags say which. *)
Granted(flags) ==
    IF flags \subseteq {"CREATE"} THEN {"read", "write"}
    ELSE {r \in {"read", "write"} :
           \/ "READ_WRITE" \in flags
           \/ r = "read" /\ "READ_ONLY" \in flags
           \/ r = "write" /\ "WRITE_ONLY" \in flags}

Open(n, flags, i, f) ==
    /\ opened[i] = None
    /\ \/ folder[n] = f /\ UNCHANGED folder
       \/ /\ folder[n] = None /\ "CREATE" \in flags /\ ~Reached(f)
          /\ folder' = [folder EXCEPT ![n] = f]
    /\ opened' = [opened EXCEPT ![i] = f]
    /\ rights' = [rights EXCEPT ![i] = Granted(flags)]
    /\ position' = [position EXCEPT ![i] = 0]
    /\ Answer(None, i + 1)
    /\ UNCHANGED content

(* The content of a file that nothing leads to any more is gone. *)
Forget == content' = [f \in Files |-> IF Reached(f)' THEN content[f] ELSE <<>>]

Close(i) ==
    /\ opened[i] # None
    /\ Answer(None, 0)
    /\ opened' = [opened EXCEPT ![i] = None]
    /\ rights' = [rights EXCEPT ![i] = {}]
    /\ position' = [position EXCEPT ![i] = 0]
    /\ UNCHANGED folder
    /\ Forget

Delete(n) ==
    /\ folder[n] # None
    /\ folder' = [folder EXCEPT ![n] = None]
    /\ Answer(None, 0)
    /\ UNCHANGED <<opened, rights, position>>
    /\ Forget

Destroy ==
    /\ Answer(None, 0)
    /\ folder' = [n \in Names |-> None] /\ opened' = [i \in Slots |-> None]
    /\ rights' = [i \in Slots |-> {}] /\ position' = [i \in Slots |-> 0]
    /\ Forget

(* data over the bytes of old from pos on. *)
Patched(old, pos, data) ==
    LET end == pos + Len(data)
    IN  [k \in 1 .. (IF end > Len(old) THEN end ELSE Len(old)) |->
          IF k > pos /\ k <= end THEN data[k - pos] ELSE old[k]]

Write(i, data) ==
    /\ "write" \in rights[i]
    /\ Answer(<<"write", Len(data)>>, Len(data))
    /\ position' = [position EXCEPT ![i] = @ + Len(data)]
    /\ UNCHANGED <<folder, opened, rights>>
    /\ content' = [content EXCEPT ![opened[i]] = Patched(@, position[i], data)]

WriteNothing(i) ==
    /\ "write" \in rights[i]
    /\ Answer(<<"write", 0>>, 0)
    /\ UNCHANGED files

Read(i, n) ==
    LET old == content[opened[i]]
        end == IF position[i] + n > Len(old) THEN Len(old) ELSE position[i] + n
    IN  /\ "read" \in rights[i]
        /\ bytes' = SubSeq(old, position[i] + 1, end)
        /\ answer' = end - position[i] /\ request' = <<"read", n>>
        /\ position' = [position EXCEPT ![i] = end]
        /\ UNCHANGED <<folder, content, opened, rights, error>>

(* Bytes that a file grows by are not specified; positions behind the end   *)
(* of a file that shrinks go to its end.                                    *)
Resize(i, n) ==
    LET f == opened[i]
        old == content[f]
    IN  /\ "write" \in rights[i]
        /\ Answer(<<"resize", n>>, 0)
        /\ UNCHANGED <<folder, opened, rights>>
        /\ IF n <= Len(old)
           THEN content' = [content EXCEPT ![f] = SubSeq(old, 1, n)]
           ELSE \E more \in [1 .. n - Len(old) -> AnyByte] :
                  content' = [content EXCEPT ![f] = old \o more]
        /\ position' = [j \in Slots |-> IF opened[j] = f /\ position[j] > n
                                        THEN n ELSE position[j]]

Next ==
    \/ NoFile \/ NoPermission \/ NoMemory \/ Destroy
    \/ \E n \in Names :
         Delete(n) \/ \E flags \in OpenFlags, i \in Slots, f \in Files : Open(n, flags, i, f)
    \/ \E i \in Slots :
         \/ Close(i) \/ WriteNothing(i)
         \/ \E n \in 0 .. MaxRequest : Read(i, n)
         \/ \E n \in 1 .. MaxRequest : \E data \in [1 .. n -> AnyByte] : Write(i, data)
         \/ \E n \in 0 .. MaxSize : Resize(i, n)

Spec == Init /\ [][Next]_vars
=============================================================================
