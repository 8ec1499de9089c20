---------------------------- MODULE ResponseFiles -----------------------------
(***************************************************************************)
(* atomic_write_once of src/ranklock/release_sidecar.py: how a response    *)
(* becomes visible.  The bytes are written to a temporary inode of the     *)
(* caller's own, flushed, and hard-linked to the destination name, so a    *)
(* file is there completely or not at all; a crash leaves at most a        *)
(* temporary file that nobody reads, which is not modelled.                *)
(*                                                                         *)
(* The three system calls on the destination (open, link, open again) are  *)
(* three steps; other processes use the same directory in between.         *)
(***************************************************************************)

CONSTANTS
  Paths,    \* destination names the callers use
  Foreign,  \* bytes of a response that is not one of ours
  Absent    \* no file of that name

VARIABLE file   \* per destination: the bytes visible there, or Absent

FilesInit == file = [f \in Paths |-> Absent]

\* _read_existing_output, and how its result compares with the bytes to publish.
Missing(f) == file[f] = Absent
Holds(f, bytes) == file[f] = bytes
Conflicts(f, bytes) == file[f] \notin {Absent, bytes}

\* Mutant: os.replace instead of os.link.
ReplaceFile(f, bytes) == file' = [file EXCEPT ![f] = bytes]

\* os.link succeeds only while nobody has the name.
LinkFile(f, bytes) ==
  /\ file[f] = Absent
  /\ file' = [file EXCEPT ![f] = bytes]

\* FileExistsError.
LinkCollides(f) ==
  /\ file[f] # Absent
  /\ UNCHANGED file

-----------------------------------------------------------------------------
(* Other processes *)

\* Another response is published under the same name, by the same function.
PublishForeign(f) == LinkFile(f, Foreign)

\* The coordinator moves a response away.
Collect(f) ==
  /\ file[f] # Absent
  /\ file' = [file EXCEPT ![f] = Absent]
=============================================================================
