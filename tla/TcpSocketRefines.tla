-------------------------- MODULE TcpSocketRefines --------------------------
(* TcpSocket implements DrainingPipe: the mapping reads the pipe's status  *)
(* off the object's flags and keeps the queue and the delivered buffers.   *)
EXTENDS TcpSocket

pipeStatus ==
    CASE is_closed /\ aborted    -> "failed"
      [] is_closed /\ ~aborted   -> "closed"
      [] ~is_closed /\ is_closing -> "closing"
      [] ~is_closed /\ ~is_closing /\ is_connected -> "open"
      [] OTHER -> "unopened"

Pipe == INSTANCE DrainingPipe
        WITH Buffers <- 1..MaxSends, status <- pipeStatus,
             queue <- write_queue, output <- delivered

(* Every behaviour of TcpSocket is, through the mapping, a behaviour of    *)
(* the pipe its header describes: in particular close() never overtakes    *)
(* the queue, and no step of any handler drops or reorders a buffer.       *)
ImplementsPipe == Pipe!PipeSpec
=============================================================================
