-------------------------- MODULE UdpSocketRefines --------------------------
(* UdpSocket implements DrainingPipe too, if a datagram whose target does  *)
(* not resolve is counted as delivered: it left the queue in its turn.     *)
EXTENDS UdpSocket

pipeStatus ==
    CASE is_closed /\ aborted    -> "failed"
      [] is_closed /\ ~aborted   -> "closed"
      [] ~is_closed /\ is_closing -> "closing"
      [] ~is_closed /\ ~is_closing /\ is_open -> "open"
      [] OTHER -> "unopened"

Pipe == INSTANCE DrainingPipe
        WITH Buffers <- 1..MaxSends, status <- pipeStatus,
             queue <- send_queue, output <- handled

(* Through the mapping every behaviour of UdpSocket is one of the pipe:    *)
(* close() waits for the queue and no completion skips or repeats a        *)
(* datagram (udp_socket.h, send() and close()).                            *)
ImplementsPipe == Pipe!PipeSpec
=============================================================================
