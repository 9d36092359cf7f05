----------------------------- MODULE MCPcapQueue -----------------------------
(* The pipeline that the names of the queues suggest. *)
EXTENDS PcapQueue, TLC

CONSTANTS free_queue, allocated_queue, send_queue, capture, sort, send

ThreeQueues == {free_queue, allocated_queue, send_queue}
ThreeMovers == {capture, sort, send}
Takes == capture :> free_queue @@ sort :> allocated_queue @@ send :> send_queue
Adds  == capture :> allocated_queue @@ sort :> send_queue @@ send :> free_queue
=============================================================================
