----------------------------- MODULE Interrupts -----------------------------
(***************************************************************************)
(* Interrupts while main.rs sets up the devices: the IDT and its gates, the *)
(* local and the I/O APIC (apic.rs), the 8042 and the keyboard (ps2.rs),    *)
(* the timer, and the handlers of main.rs.  Nothing before the jump to user *)
(* space touches the interrupt flag, so the whole setup runs with whatever  *)
(* the firmware left in it.                                                 *)
(*                                                                         *)
(* External: the local APIC (a vector waits in irr, is in service in isr,   *)
(* and keeps vectors of its class from the CPU until a write to the EOI     *)
(* register at 0xB0), edge-triggered delivery of IRQ1, the 8042 with its    *)
(* one-byte output buffer, and the keyboard, which may answer late or not   *)
(* at all.  The firmware leaves the 8259s masked and its own timer off.     *)
(***************************************************************************)
EXTENDS Integers, Sequences, FiniteSets

CONSTANTS NoByte, MaxBytes   \* MaxBytes bounds the scan codes the keyboard sends

VARIABLES
    step,       \* index of the next setup step
    cpu,        \* "kernel", "user", "lost" (through an empty gate) or "reset"
    if_flag,    \* the CPU's interrupt flag
    idt,        \* vector -> gate
    irr, isr,   \* the local APIC
    frames,     \* the handlers that have been entered and have not returned
    irq1,       \* the vector the I/O APIC routes IRQ1 to, 0 when masked
    timer_on,
    obf,        \* the 8042's output buffer
    reply,      \* the answer the keyboard or the 8042 still owes
    kbd,        \* [port, irq, scanning]: keyboard port on, IRQ1 on, keyboard scanning
    config,     \* the byte ps2_controller_init took for the configuration
    bytes       \* scan codes sent so far

interruptVars == <<step, cpu, if_flag, idt, irr, isr, frames, irq1, timer_on, obf, reply,
                   kbd, config, bytes>>

cpuVars == <<if_flag, frames>>

apicVars == <<irr, isr>>

deviceVars == <<obf, reply, kbd, config, bytes>>

TIMER == 32

KEYBOARD == 33

SYSCALL == 128

Vectors == {TIMER, KEYBOARD, SYSCALL}

LAPIC_EOI == 176   \* 0xB0

SetupOrder_IoApicLast ==
    <<"idt_setup", "timer_gate", "keyboard_gate", "syscall_gate", "apic_local_init",
      "port_off", "flush_stale", "read_config", "write_config", "port_on",
      "scan_off", "scan_off_ack", "flush", "scan_on", "scan_on_ack", "init_flush",
      "apic_io_init", "timer", "load", "execute">>

\* kernel_main_on_new_stack, with keyboard::init in its steps.
SetupOrder ==
    <<"idt_setup", "timer_gate", "keyboard_gate", "syscall_gate", "apic_local_init", "apic_io_init",
      "port_off", "flush_stale", "read_config", "write_config", "port_on",
      "scan_off", "scan_off_ack", "flush", "scan_on", "scan_on_ack", "init_flush",
      "timer", "load", "execute">>

InterruptsInit ==
    /\ step = 1 /\ cpu = "kernel" /\ if_flag \in BOOLEAN
    /\ idt = [v \in Vectors |-> [handler |-> "firmware", clears_if |-> TRUE]]
    /\ irr = {} /\ isr = {} /\ frames = << >>
    /\ irq1 = 0 /\ timer_on = FALSE
    /\ obf = NoByte /\ reply = NoByte /\ config = NoByte /\ bytes = 0
    /\ \E irq \in BOOLEAN : kbd = [port |-> TRUE, irq |-> irq, scanning |-> TRUE]

-----------------------------------------------------------------------------
(* Setting up.  Interrupts taken in between run to their end first.         *)
At(name) == cpu = "kernel" /\ frames = << >> /\ step <= Len(SetupOrder) /\ SetupOrder[step] = name

Done == step' = step + 1

Passed(name) == \E i \in 1 .. step - 1 : SetupOrder[i] = name

idt_setup_readonly ==
    /\ At("idt_setup") /\ Done
    /\ idt' = [v \in Vectors |-> [handler |-> "null", clears_if |-> TRUE]]
    /\ UNCHANGED <<cpu, cpuVars, apicVars, irq1, timer_on, deviceVars>>

\* Type 0x8E: an interrupt gate, which clears IF, for ring 0 only.
Gate(handler) == [handler |-> handler, clears_if |-> TRUE]

idt_set_gate(name, v, handler) ==
    /\ At(name) /\ Done
    /\ idt' = [idt EXCEPT ![v] = Gate(handler)]
    /\ UNCHANGED <<cpu, cpuVars, apicVars, irq1, timer_on, deviceVars>>

\* The 8259s stay masked.  The write meant for the spurious vector register goes
\* to 0x70, which is no register of the APIC; the firmware had enabled it.
apic_local_init ==
    /\ At("apic_local_init") /\ Done
    /\ UNCHANGED <<cpu, cpuVars, idt, apicVars, irq1, timer_on, deviceVars>>

apic_io_init ==
    /\ At("apic_io_init") /\ Done
    /\ irq1' = KEYBOARD
    /\ UNCHANGED <<cpu, cpuVars, idt, apicVars, timer_on, deviceVars>>

configure_timer ==
    /\ At("timer") /\ Done
    /\ timer_on' = TRUE
    /\ UNCHANGED <<cpu, cpuVars, idt, apicVars, irq1, deviceVars>>

load_init ==
    /\ At("load") /\ Done
    /\ UNCHANGED <<cpu, cpuVars, idt, apicVars, irq1, timer_on, deviceVars>>

\* iretq with rflags 0x202.
execute_process ==
    /\ At("execute") /\ Done
    /\ cpu' = "user" /\ if_flag' = TRUE
    /\ UNCHANGED <<frames, idt, apicVars, irq1, timer_on, deviceVars>>

-----------------------------------------------------------------------------
(* keyboard::init.  A flush reads until the buffer is seen empty.           *)
KbdStep(name) ==
    /\ At(name) /\ Done
    /\ UNCHANGED <<cpu, cpuVars, idt, apicVars, irq1, timer_on, bytes>>

flush_output_buffer(name) ==
    /\ KbdStep(name) /\ obf' = NoByte
    /\ UNCHANGED <<reply, kbd, config>>

\* CMD_DISABLE_KEYBOARD.
port_off ==
    /\ KbdStep("port_off")
    /\ kbd' = [kbd EXCEPT !.port = FALSE]
    /\ UNCHANGED <<obf, reply, config>>

port_on ==
    /\ KbdStep("port_on")
    /\ kbd' = [kbd EXCEPT !.port = TRUE]
    /\ UNCHANGED <<obf, reply, config>>

read_config ==
    /\ KbdStep("read_config") /\ reply' = "config"
    /\ UNCHANGED <<obf, kbd, config>>

\* keyboard_read_timeout, then the configuration with IRQ1 on; after a timeout
\* the default is used.
write_config ==
    /\ KbdStep("write_config")
    /\ config' = IF obf = NoByte THEN "default" ELSE obf
    /\ obf' = NoByte
    /\ kbd' = [kbd EXCEPT !.irq = TRUE]
    /\ UNCHANGED reply

scanning(name, on) ==
    /\ KbdStep(name) /\ reply' = "ack"
    /\ kbd' = [kbd EXCEPT !.scanning = on]
    /\ UNCHANGED <<obf, config>>

\* The acknowledgement, any other byte, or a timeout: all three are ignored.
keyboard_read_timeout(name) ==
    /\ KbdStep(name) /\ obf' = NoByte
    /\ UNCHANGED <<reply, kbd, config>>

keyboard_init ==
    \/ port_off \/ port_on \/ read_config \/ write_config
    \/ \E name \in {"flush_stale", "flush", "init_flush"} : flush_output_buffer(name)
    \/ scanning("scan_off", FALSE) \/ scanning("scan_on", TRUE)
    \/ \E name \in {"scan_off_ack", "scan_on_ack"} : keyboard_read_timeout(name)

-----------------------------------------------------------------------------
(* The devices.  A byte that enters the output buffer raises an edge, which *)
(* is lost when IRQ1 is off in the 8042 or masked in the I/O APIC.          *)
Buffer(byte) ==
    /\ obf = NoByte /\ obf' = byte
    /\ irr' = IF kbd.irq /\ irq1 # 0 THEN irr \cup {irq1} ELSE irr
    /\ UNCHANGED <<step, cpu, cpuVars, idt, isr, irq1, timer_on, kbd, config>>

device_replies ==
    /\ reply # NoByte /\ (reply = "ack" => kbd.port)
    /\ Buffer(reply) /\ reply' = NoByte
    /\ UNCHANGED bytes

key_arrives ==
    /\ kbd.port /\ kbd.scanning /\ bytes < MaxBytes
    /\ Buffer("scan") /\ bytes' = bytes + 1
    /\ UNCHANGED reply

timer_fires ==
    /\ timer_on /\ cpu \in {"kernel", "user"}
    /\ irr' = irr \cup {TIMER}
    /\ UNCHANGED <<step, cpu, cpuVars, idt, isr, irq1, timer_on, deviceVars>>

-----------------------------------------------------------------------------
(* Interrupts.                                                              *)
Class(v) == v \div 16

Accepted(v) ==
    /\ v \in irr /\ \A w \in irr : w <= v
    /\ \A w \in isr : Class(w) < Class(v)

\* In user mode the CPU takes its stack from TSS.rsp0, which nothing ever sets.
interrupt(v) ==
    /\ cpu \in {"kernel", "user"} /\ if_flag /\ Accepted(v)
    /\ irr' = irr \ {v} /\ isr' = isr \cup {v}
    /\ IF cpu = "user" THEN cpu' = "reset" /\ UNCHANGED cpuVars
       ELSE IF idt[v].handler \in {"null", "firmware"} THEN cpu' = "lost" /\ UNCHANGED cpuVars
       ELSE /\ frames' = Append(frames, [vector |-> v, served |-> FALSE, saved_if |-> if_flag])
            /\ if_flag' = ~idt[v].clears_if
            /\ UNCHANGED cpu
    /\ UNCHANGED <<step, idt, irq1, timer_on, deviceVars>>

\* int 0x80: the gate is for ring 0, so the CPU raises #GP, again without a stack.
int_0x80 ==
    /\ cpu = "user" /\ cpu' = "reset"
    /\ UNCHANGED <<step, cpuVars, idt, apicVars, irq1, timer_on, deviceVars>>

Top == frames[Len(frames)]

Running(v) == cpu = "kernel" /\ frames # << >> /\ Top.vector = v

\* A write to the local APIC: one to the EOI register ends the highest vector in
\* service, one to another offset does nothing here.
ApicWrite(offset) ==
    isr' = IF offset # LAPIC_EOI THEN isr ELSE {v \in isr : \E w \in isr : w > v}

Iret ==
    /\ frames' = SubSeq(frames, 1, Len(frames) - 1)
    /\ if_flag' = Top.saved_if

\* keyboard::handle_irq takes the byte, if there is one.
keyboard_handler_irq ==
    /\ Running(KEYBOARD) /\ ~Top.served
    /\ obf' = NoByte
    /\ frames' = [frames EXCEPT ![Len(frames)].served = TRUE]
    /\ UNCHANGED <<step, cpu, if_flag, idt, apicVars, irq1, timer_on, reply, kbd, config, bytes>>

\* "Send EOI to LAPIC (write 0 to EOI register at offset 0x40)".
keyboard_handler_return ==
    /\ Running(KEYBOARD) /\ Top.served
    /\ ApicWrite(64)
    /\ Iret
    /\ UNCHANGED <<step, cpu, idt, irr, irq1, timer_on, deviceVars>>

timer_handler ==
    /\ Running(TIMER)
    /\ ApicWrite(176)
    /\ Iret
    /\ UNCHANGED <<step, cpu, idt, irr, irq1, timer_on, deviceVars>>

InterruptsNext ==
    \/ idt_setup_readonly
    \/ idt_set_gate("timer_gate", TIMER, "timer_handler")
    \/ idt_set_gate("keyboard_gate", KEYBOARD, "keyboard_handler")
    \/ idt_set_gate("syscall_gate", SYSCALL, "syscall_handler")
    \/ apic_local_init \/ apic_io_init \/ keyboard_init
    \/ configure_timer \/ load_init \/ execute_process
    \/ device_replies \/ key_arrives \/ timer_fires
    \/ \E v \in {TIMER, KEYBOARD} : interrupt(v)
    \/ int_0x80
    \/ keyboard_handler_irq \/ keyboard_handler_return \/ timer_handler

-----------------------------------------------------------------------------
(* Whatever the firmware left in IF, and whenever keys arrive during setup, *)
(* no interrupt is taken through a gate that has no handler yet: the gates  *)
(* of a device are set before the device is routed to the CPU.              *)
NoEmptyGate == cpu # "lost"

(* The byte written back as the 8042's configuration is the controller's    *)
(* own answer or the default, never a scan code or an acknowledgement, even *)
(* when keys are pressed during setup and the interrupt handler, already    *)
(* routed, reads the answer first.                                          *)
ConfigIsNotScancode == config \in {NoByte, "config", "default"}

(* After keyboard::init a byte in the output buffer has its interrupt       *)
(* pending or its handler entered.  IRQ1 is edge-triggered and the 8042     *)
(* holds one byte, so a byte without one would silence the keyboard.        *)
NoStrandedByte ==
    (cpu \in {"kernel", "user"} /\ Passed("init_flush") /\ obf # NoByte) =>
        KEYBOARD \in irr \/ (frames # << >> /\ Top.vector = KEYBOARD)

(* Setting up the devices survives keys pressed in the middle of it: every  *)
(* interrupt finds its gate, the controller's configuration is not mistaken *)
(* for a key, and no byte is left that would silence the keyboard           *)
(* (kernel_main_on_new_stack, keyboard::init).                              *)
SetupSafe == NoEmptyGate /\ ConfigIsNotScancode /\ NoStrandedByte

-----------------------------------------------------------------------------
(* What the code's own comments say of it and the model refutes.            *)

(* main.rs on keyboard_handler: "Send EOI to LAPIC (write 0 to EOI register *)
(* at offset 0x40)".  An interrupt whose handler has returned is no longer  *)
(* in service.                                                              *)
InServiceOnlyWhileHandled ==
    cpu = "kernel" => isr \subseteq {frames[i].vector : i \in DOMAIN frames}
=============================================================================
