----------------------------- MODULE NetstatAsp -----------------------------
(***************************************************************************)
(* The netstatraw6 ASP, asp_measure (src/src/asps/netstatraw6asp.c): map  *)
(* the graph, build a file address and a measurement variable for          *)
(* /proc/net/raw6, read the file line by line into a measurement data     *)
(* object and attach it to the node.  The data are abstracted to the      *)
(* number of lines and, per line, whether both its addresses are "::";    *)
(* what the model follows is the control flow, what is allocated and     *)
(* released on each path, and the NULL dereferences after the unchecked  *)
(* allocations in asp_measure and chunk_line_data.                         *)
(***************************************************************************)
EXTENDS Integers

CONSTANT MaxLines   \* most data lines /proc/net/raw6 holds in a run

ASSUME NetstatAssumption == MaxLines \in Nat

\* What asp_measure allocates or opens: the mapped graph, the file address,
\* its path string, the measurement variable, the FILE, the getline buffer
\* and the measurement data.
Resources == {"graph", "address", "path", "var", "fp", "line", "data"}

EINVAL == 22

VARIABLES
    npc,        \* control point of asp_measure
    held,       \* resources currently allocated
    ret,        \* return value
    fileLines,  \* data lines in /proc/net/raw6 (the header not counted)
    readLines,  \* data lines read so far
    rawAdded,   \* measurement_node_add_rawdata succeeded
    nullEntry   \* data->lines holds a NULL record

vars == <<npc, held, ret, fileLines, readLines, rawAdded, nullEntry>>

NPCs == {"start", "addr", "stat", "path", "var", "open", "header", "alloc",
         "read", "done", "crashed"}

TypeOK ==
    /\ npc \in NPCs
    /\ held \subseteq Resources
    /\ ret \in {0, -1, -EINVAL}
    /\ fileLines \in 0..MaxLines
    /\ readLines \in 0..fileLines
    /\ rawAdded \in BOOLEAN
    /\ nullEntry \in BOOLEAN

Init ==
    /\ npc = "start"
    /\ held = {}
    /\ ret = 0
    /\ fileLines \in 0..MaxLines
    /\ readLines = 0
    /\ rawAdded = FALSE
    /\ nullEntry = FALSE

\* Return r after releasing rel.
Return(r, rel) ==
    /\ npc' = "done" /\ ret' = r /\ held' = held \ rel

-----------------------------------------------------------------------------
(* argc, node_id_of_str and map_measurement_graph: any failure returns     *)
(* -EINVAL with nothing mapped.                                            *)
Start ==
    /\ npc = "start"
    /\ \/ Return(-EINVAL, {})
       \/ npc' = "addr" /\ held' = held \cup {"graph"} /\ UNCHANGED ret
    /\ UNCHANGED <<fileLines, readLines, rawAdded, nullEntry>>

(* file_addr_space.alloc_address; NULL unmaps the graph and returns -1.    *)
AllocAddress ==
    /\ npc = "addr"
    /\ \/ Return(-1, {"graph"})
       \/ npc' = "stat" /\ held' = held \cup {"address"} /\ UNCHANGED ret
    /\ UNCHANGED <<fileLines, readLines, rawAdded, nullEntry>>

(* stat("/proc/net/raw6") and the st_size range check: a failure of either *)
(* unmaps the graph and returns -1; the file address is not freed.         *)
Stat ==
    /\ npc = "stat"
    /\ \/ Return(-1, {"graph"})
       \/ npc' = "path" /\ UNCHANGED <<held, ret>>
    /\ UNCHANGED <<fileLines, readLines, rawAdded, nullEntry>>

(* strdup of the path into the address; NULL frees the address, unmaps   *)
(* the graph and returns -1.                                               *)
DupPath ==
    /\ npc = "path"
    /\ \/ Return(-1, {"address", "graph"})
       \/ npc' = "var" /\ held' = held \cup {"path"} /\ UNCHANGED ret
    /\ UNCHANGED <<fileLines, readLines, rawAdded, nullEntry>>

(* new_measurement_variable takes the address; NULL frees the address     *)
(* (and with it the path), unmaps the graph and returns -1.                *)
NewVar ==
    /\ npc = "var"
    /\ \/ Return(-1, {"address", "path", "graph"})
       \/ npc' = "open" /\ held' = held \cup {"var"} /\ UNCHANGED ret
    /\ UNCHANGED <<fileLines, readLines, rawAdded, nullEntry>>

\* What free_measurement_variable releases: the variable and its address.
VarParts == {"var", "address", "path"}

(* fopen; NULL frees the variable, unmaps the graph and returns -1.        *)
Open ==
    /\ npc = "open"
    /\ \/ Return(-1, VarParts \cup {"graph"})
       \/ npc' = "header" /\ held' = held \cup {"fp"} /\ UNCHANGED ret
    /\ UNCHANGED <<fileLines, readLines, rawAdded, nullEntry>>

\* Mutant of ReadHeader: the failure path leaves the file open.
ReadHeaderNoClose ==
    /\ npc = "header"
    /\ \/ /\ npc' = "done" /\ ret' = -1
          /\ held' = (held \cup {"line"}) \ (VarParts \cup {"graph"})
       \/ npc' = "alloc" /\ held' = held \cup {"line"} /\ UNCHANGED ret
    /\ UNCHANGED <<fileLines, readLines, rawAdded, nullEntry>>

(* getline of the column headers.  getline allocates the buffer whether   *)
(* or not it reads a line; on failure the variable is freed, the file     *)
(* closed, the graph unmapped and -1 returned, the buffer kept.            *)
ReadHeader ==
    /\ npc = "header"
    /\ \/ /\ npc' = "done" /\ ret' = -1
          /\ held' = (held \cup {"line"}) \ (VarParts \cup {"fp", "graph"})
       \/ npc' = "alloc" /\ held' = held \cup {"line"} /\ UNCHANGED ret
    /\ UNCHANGED <<fileLines, readLines, rawAdded, nullEntry>>

(* netstat_raw6_measurement_type.alloc_data, not checked: a NULL result is *)
(* dereferenced by the first data->lines of the loop or by add_rawdata.    *)
AllocData ==
    /\ npc = "alloc"
    /\ \/ npc' = "read" /\ held' = held \cup {"data"}
       \/ npc' = "crashed" /\ UNCHANGED held
    /\ UNCHANGED <<ret, fileLines, readLines, rawAdded, nullEntry>>

(* chunk_line_data on one line: the record is malloc-ed and checked (a    *)
(* NULL record is returned as is); the 16-byte ip buffer is malloc-ed and *)
(* not checked, and sscanf writes through it for each of the two          *)
(* addresses that is not all zeros, so with a NULL ip a line naming a     *)
(* real address crashes the ASP.  Otherwise the parsed record is returned. *)
ChunkLineData(bothZero) ==
    {"record", "null"} \cup (IF bothZero THEN {} ELSE {"crash"})

\* Mutant of ReadLine: the loop goes on past the end of the file.
ReadLinePastEnd ==
    /\ npc = "read"
    /\ readLines <= fileLines
    /\ \E bothZero \in BOOLEAN : \E nl \in ChunkLineData(bothZero) :
          \/ nl = "crash" /\ npc' = "crashed"
             /\ UNCHANGED <<held, readLines, nullEntry>>
          \/ /\ nl # "crash"
             /\ readLines' = readLines + 1
             /\ held' = held \ {"line"}
             /\ nullEntry' = (nullEntry \/ nl = "null")
             /\ UNCHANGED npc
    /\ UNCHANGED <<ret, fileLines, rawAdded>>

(* One pass of the while loop: getline reads a line, chunk_line_data      *)
(* parses it, the result (a NULL one too) is prepended to data->lines and *)
(* the buffer freed.                                                       *)
ReadLine ==
    /\ npc = "read"
    /\ readLines < fileLines
    /\ \E bothZero \in BOOLEAN : \E nl \in ChunkLineData(bothZero) :
          \/ nl = "crash" /\ npc' = "crashed"
             /\ UNCHANGED <<held, readLines, nullEntry>>
          \/ /\ nl # "crash"
             /\ readLines' = readLines + 1
             /\ held' = held \ {"line"}
             /\ nullEntry' = (nullEntry \/ nl = "null")
             /\ UNCHANGED npc
    /\ UNCHANGED <<ret, fileLines, rawAdded>>

(* getline reaches the end of the file (allocating a fresh buffer, since  *)
(* line is NULL); measurement_node_add_rawdata attaches the data to the   *)
(* node or fails, and its result is ignored; the data, variable and file  *)
(* are released, the graph unmapped, and 0 returned.                       *)
Finish ==
    /\ npc = "read"
    /\ readLines = fileLines
    /\ rawAdded' \in BOOLEAN
    /\ npc' = "done" /\ ret' = 0
    /\ held' = (held \cup {"line"}) \ ({"data", "fp", "graph"} \cup VarParts)
    /\ UNCHANGED <<fileLines, readLines, nullEntry>>

Next ==
    \/ Start \/ AllocAddress \/ Stat \/ DupPath \/ NewVar \/ Open
    \/ ReadHeader \/ AllocData \/ ReadLine \/ Finish

Spec == Init /\ [][Next]_vars

-----------------------------------------------------------------------------
(* Properties.                                                             *)

(* On every return path asp_measure has unmapped the graph, closed the     *)
(* file and freed the measurement variable and data it created: each      *)
(* early return releases what the steps before it acquired.                *)
ClosedOnReturn ==
    npc = "done" => held \cap {"graph", "fp", "var", "data"} = {}

(* Nothing asp_measure allocates outlives it: the file address, its path   *)
(* and the getline buffer are freed on every return path, as the strdup   *)
(* failure path (free_address) does for the address.                       *)
ReleasedOnReturn ==
    npc = "done" => held = {}

(* Spec section 1: a collector is a parse-and-record worker.  When         *)
(* asp_measure reports success, every line of /proc/net/raw6 it read is   *)
(* recorded on the node: no record was lost to an allocation failure and  *)
(* measurement_node_add_rawdata succeeded.                                 *)
SuccessRecordsEveryLine ==
    (npc = "done" /\ ret = 0) => rawAdded /\ ~nullEntry

=============================================================================
