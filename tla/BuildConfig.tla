----------------------------- MODULE BuildConfig -----------------------------
(***************************************************************************)
(* What the preprocessor makes of log4cplus' configuration headers: from   *)
(* the compiler and the command line to the threading backend, the class   *)
(* that SharedMutex is, the headers included for it, and what is exported. *)
(* The library and a program that uses it read the same headers in         *)
(* different compilations, each with its own compiler and command line,    *)
(* and nothing compares what they made of them.                            *)
(*                                                                         *)
(* A macro is a string, without the prefix LOG4CPLUS_; a compilation is    *)
(* the set of the macros defined in it, and a header maps that set to the  *)
(* set after it.  Versions are numbers, 0 if the compiler is another one.  *)
(***************************************************************************)
EXTENDS Integers

VARIABLES
  env,    \* per compilation done: the compiler, the platform, the command line
  units   \* per compilation: Unread or the macros it ends with

vars == <<env, units>>

Sides == {"library", "client"}
Unread == {"unread"}

Compilers ==
  [win32 : {TRUE}, macos : {FALSE}, apple : {FALSE}, msc : {1300, 1400, 1600, 1700}, gnuc : {0}, mingw64 : {0}, borland : {FALSE}]
    \cup
  [win32 : {TRUE}, macos : {FALSE}, apple : {FALSE}, msc : {0}, gnuc : {303, 405, 407}, mingw64 : {0, 3}, borland : {FALSE}]
    \cup
  [win32 : {TRUE}, macos : {FALSE}, apple : {FALSE}, msc : {0}, gnuc : {0}, mingw64 : {0}, borland : {TRUE}]
    \cup
  [win32 : {FALSE}, macos : {FALSE}, apple : BOOLEAN, msc : {0}, gnuc : {405, 407}, mingw64 : {0}, borland : {FALSE}]
    \cup
  [win32 : {FALSE}, macos : {TRUE}, apple : {FALSE}, msc : {0}, gnuc : {0}, mingw64 : {0}, borland : {FALSE}]

WINNT_VISTA == 1536  \* 0x0600

\* defines.hxx is generated by configure and not part of the sources: any of
\* what the headers below ask for.
defines_hxx == {"THREAD_LOCAL_VAR", "HAVE_FUNC_SYMBOL", "HAVE_CXX11_ATOMICS", "SINGLE_THREADED"}

\* Only Windows has a _WIN32_WINNT (0: undefined), and a configured header
\* is read only where there is none for the platform.
Possible(e) ==
  /\ ~ e.cc.win32 => e.winnt = 0
  /\ e.cc.win32 \/ e.cc.macos => e.configured = {}

Environments ==
  {e \in [cc : Compilers, winnt : {0, 1281, WINNT_VISTA}, configured : SUBSET defines_hxx,
          options : SUBSET {"UNICODE", "SINGLE_THREADED", "STATIC", "BUILD_DLL", "EXPORTS"}] : Possible(e)}

\* A client is compiled like the library, with BUILD_DLL or without, up to one
\* setting: another version of the compiler, another _WIN32_WINNT, another
\* defines.hxx, or one macro more or less.
SameVendor(c, d) ==
  /\ c.win32 = d.win32 /\ c.macos = d.macos /\ c.apple = d.apple /\ c.borland = d.borland
  /\ (c.msc = 0) = (d.msc = 0) /\ (c.gnuc = 0) = (d.gnuc = 0)

Toggle(options, o) == (options \ {o}) \cup ({o} \ options)

ClientsOf(e) ==
  LET asLibrary == {[e EXCEPT !.options = (@ \ {"EXPORTS", "BUILD_DLL"}) \cup dll] : dll \in SUBSET {"BUILD_DLL"}} IN
  {d \in UNION {
     {[l EXCEPT !.cc = c] : c \in {cc \in Compilers : SameVendor(cc, l.cc)}}
       \cup {[l EXCEPT !.winnt = w] : w \in {0, 1281, WINNT_VISTA}}
       \cup {[l EXCEPT !.configured = m] : m \in SUBSET defines_hxx}
       \cup {[l EXCEPT !.options = Toggle(@, o)] : o \in {"UNICODE", "SINGLE_THREADED", "STATIC"}}
     : l \in asLibrary} : Possible(d)}

Init ==
  /\ env = [s \in {} |-> Unread]
  /\ units = [s \in Sides |-> Unread]

Def(m, condition, names) == IF condition THEN m \cup names ELSE m

-----------------------------------------------------------------------------
(* config/win32.h.                                                         *)

\* What it asks of the compiler, and what it says Windows has.  MinGW-w64 is
\* taken with a run time library that has the foo_s() functions.
Win32Features(m, e) ==
  LET m1 == m \cup {"HAVE_VSNPRINTF", "HAVE_OUTPUTDEBUGSTRING", "HAVE_WIN32_CONSOLE", "HAVE_NT_EVENT_LOG"}
      m2 == Def(m1, e.cc.msc > 1400 \/ e.cc.mingw64 >= 3, {"HAVE_INTRIN_H"})
  IN Def(m2, e.cc.msc >= 1400 \/ e.cc.mingw64 >= 2, {"HAVE_VSNPRINTF_S"})

\* A DLL is asked for by name or by what the build systems define; STATIC is
\* the default.
Win32Linkage(m) ==
  LET m1 == Def(m, "EXPORTS" \in m /\ "STATIC" \notin m, {"BUILD_DLL"})
      m2 == Def(m1, "BUILD_DLL" \notin m1, {"STATIC"})
  IN Def(m2, {"STATIC", "BUILD_DLL"} \subseteq m2, {"#error"})

Win32Export(m) ==
  Def(m, "BUILD_DLL" \in m, {IF "INSIDE" \in m THEN "dllexport" ELSE "dllimport"})

Win32Threads(m, e) ==
  Def(Def(m, "SINGLE_THREADED" \notin m, {"USE_WIN32_THREADS"}),
      e.winnt # 0 /\ e.winnt < WINNT_VISTA, {"POOR_MANS_SHAREDMUTEX"})

Win32Compiler(m, e) ==
  LET m1 == Def(m, e.cc.msc # 0, {"INLINES_ARE_EXPORTED"})
      m2 == Def(m1, e.cc.msc >= 1400, {"WORKING_LOCALE", "HAVE_FUNCTION_MACRO", "HAVE_FUNCSIG_MACRO"})
      m3 == Def(m2, e.cc.msc >= 1700, {"HAVE_CXX11_ATOMICS"})
      m4 == IF e.cc.gnuc # 0 THEN (m3 \ {"INLINES_ARE_EXPORTED"}) \cup {"HAVE_FUNCTION_MACRO", "WORKING_C_LOCALE"} ELSE m3
      m5 == Def(m4, e.cc.gnuc >= 301, {"HAVE_PRETTY_FUNCTION_MACRO", "HAVE_FUNC_SYMBOL"})
      m6 == Def(m5, e.cc.gnuc >= 405, {"HAVE___SYNC_ADD_AND_FETCH"})
      m7 == Def(m6, e.cc.gnuc >= 407, {"HAVE___ATOMIC_ADD_FETCH"})
  IN Def(m7, e.cc.borland, {"HAVE_FUNCTION_MACRO"})

Win32(m, e) == Win32Compiler(Win32Threads(Win32Export(Win32Linkage(Win32Features(m, e))), e), e)

-----------------------------------------------------------------------------
(* config.hxx and helpers/thread-config.h.                                 *)

macosx(m) == m \cup {"HAVE_GETTIMEOFDAY"}

Platform(m, e) ==
  IF e.cc.win32 THEN Win32(m, e) ELSE IF e.cc.macos THEN macosx(m) ELSE m \cup e.configured

\* Without a locale or a vsnprintf the library has its own.
Replacements(m) ==
  Def(Def(m, m \cap {"UNICODE", "HAVE_VSNPRINTF", "HAVE_VSNPRINTF_S"} = {}, {"USE_POOR_MANS_SNPRINTF"}),
      m \cap {"WORKING_LOCALE", "WORKING_C_LOCALE"} = {}, {"POOR_MANS_CHCONV"})

UnixThreads(m, e) == Def(m, ~ e.cc.win32 /\ "SINGLE_THREADED" \notin m, {"USE_PTHREADS"})

\* Outside Windows the declspecs are whatever configure found; here: both.
UnixExport(m, e) == Def(m, ~ e.cc.win32, {IF "INSIDE" \in m THEN "dllexport" ELSE "dllimport"})

LanguageSupport(m, e) ==
  LET m1 == Def(m, {"INLINES_ARE_EXPORTED", "BUILD_DLL"} \subseteq m, {"INLINE_EXPORT"})
      m2 == Def(m1, "UNICODE" \in m /\ e.cc.msc >= 1400, {"FSTREAM_ACCEPTS_WCHAR_T"})
  IN Def(m2, e.cc.msc >= 1600 \/ e.cc.gnuc >= 407, {"HAVE_RVALUE_REFS"})

\* A checked format string is a char string, so not in a UNICODE build.
Attributes(m, e) ==
  Def(Def(m, "UNICODE" \notin m /\ e.cc.gnuc >= 300, {"format"}), e.cc.gnuc >= 300, {"noreturn", "pure", "expect"})

ThreadConfig(m, e) ==
  IF "USE_PTHREADS" \in m THEN Def(m, e.cc.apple, {"USE_NAMED_POSIX_SEMAPHORE"})
  ELSE IF "USE_WIN32_THREADS" \in m
  THEN Def((m \ {"THREAD_LOCAL_VAR"}) \cup {IF e.winnt >= WINNT_VISTA THEN "USE_SRW_LOCK" ELSE "POOR_MANS_SHAREDMUTEX"},
           e.cc.msc # 0 /\ e.winnt >= WINNT_VISTA, {"THREAD_LOCAL_VAR"})
  ELSE IF "SINGLE_THREADED" \in m THEN m \ {"THREAD_LOCAL_VAR"}
  ELSE m \cup {"#error"}

Config(m, e) ==
  ThreadConfig(Attributes(LanguageSupport(UnixExport(UnixThreads(Replacements(Platform(m, e)), e), e), e), e), e)

\* One compilation; INSIDE_LOG4CPLUS is defined by the library's sources.
Compile(s, e) ==
  /\ env' = [x \in DOMAIN env \cup {s} |-> IF x = s THEN e ELSE env[x]]
  /\ units' = [units EXCEPT ![s] = Config(Def(e.options, s = "library", {"INSIDE"}), e)]

Next ==
  \/ DOMAIN env = {} /\ \E e \in Environments : Compile("library", e)
  \/ DOMAIN env = {"library"} /\ \E e \in ClientsOf(env["library"]) : Compile("client", e)

Spec == Init /\ [][Next]_vars

-----------------------------------------------------------------------------
(* What the other headers make of the macros.  The headers of thread/impl  *)
(* stop every compilation but the library's own.                           *)

\* config/windowsh-inc.h: what it switches off in the system's headers ...
SwitchedOff ==
  {"WIN32_LEAN_AND_MEAN", "NOGDICAPMASKS", "NOVIRTUALKEYCODES", "NOWINMESSAGES",
   "NOWINSTYLES", "NOSYSMETRICS", "NOMENUS", "NOICONS", "NOKEYSTATES", "NOSYSCOMMANDS",
   "NORASTEROPS", "NOSHOWWINDOW", "NOATOM", "NOCLIPBOARD", "NOCOLOR", "NOCTLMGR",
   "NODRAWTEXT", "NOGDI", "NOKERNEL", "NOUSER", "NONLS", "NOMB", "NOMEMMGR", "NOMETAFILE",
   "NOMINMAX", "NOMSG", "NOOPENFILE", "NOSCROLL", "NOSERVICE", "NOSOUND", "NOTEXTMETRIC",
   "NOWH", "NOWINOFFSETS", "NOCOMM", "NOKANJI", "NOHELP", "NOPROFILER", "NODEFERWINDOWPOS",
   "NOMCX"}

\* ... and the headers themselves, the sockets before windows.h.
windowsh_inc(m, e) ==
  Def(Def({}, e.cc.win32, SwitchedOff \cup {"winsock2.h", "ws2tcpip.h", "windows.h"}),
      e.cc.win32 /\ "HAVE_INTRIN_H" \in m, {"intrin.h"})

\* thread/impl/syncprims-impl.h.
SyncprimsIncludes(m, e) ==
  IF e.cc.win32 THEN windowsh_inc(m, e)
  ELSE Def({}, "USE_PTHREADS" \in m, {"pthread.h", "semaphore.h"})

\* thread/impl/tls.h.
TlsIncludes(m, e) ==
  IF "USE_PTHREADS" \in m THEN {"pthread.h"}
  ELSE IF "USE_WIN32_THREADS" \in m THEN windowsh_inc(m, e)
  ELSE Def({}, "SINGLE_THREADED" \in m, {"vector"})

tls_key_type(m) ==
  IF "USE_PTHREADS" \in m THEN "pthread.h"
  ELSE IF "USE_WIN32_THREADS" \in m THEN "windows.h"
  ELSE "vector"

\* thread/impl/threads-impl.h: what a thread is identified by.
os_id_type(m) ==
  {b \in {"USE_PTHREADS", "USE_WIN32_THREADS", "SINGLE_THREADED"} : b \in m}

\* thread/impl/syncprims-impl.h: the members the class SharedMutex is given ...
SharedMutexMembers(m) ==
  IF "POOR_MANS_SHAREDMUTEX" \in m THEN "pmsm"
  ELSE IF "USE_PTHREADS" \in m THEN "rwlock"
  ELSE IF "USE_SRW_LOCK" \in m THEN "srw"
  ELSE "none"

\* ... and the functions that are included for it.
SharedMutexFunctions(m) ==
  IF "USE_PTHREADS" \in m THEN IF "POOR_MANS_SHAREDMUTEX" \in m THEN "pmsm" ELSE "rwlock"
  ELSE IF "USE_WIN32_THREADS" \in m THEN IF "POOR_MANS_SHAREDMUTEX" \in m THEN "pmsm" ELSE "srw"
  ELSE "none"

\* loggingmacros.h: LOG4CPLUS_MACRO_FUNCTION().
MACRO_FUNCTION(m) ==
  IF "HAVE_FUNCSIG_MACRO" \in m THEN "__FUNCSIG__"
  ELSE IF "HAVE_PRETTY_FUNCTION_MACRO" \in m THEN "__PRETTY_FUNCTION__"
  ELSE IF "HAVE_FUNCTION_MACRO" \in m THEN "__FUNCTION__"
  ELSE IF "HAVE_FUNC_SYMBOL" \in m THEN "__func__"
  ELSE "0"

\* helpers/pointer.h: the reference count of SharedObject.
count_type(m, e) ==
  IF "SINGLE_THREADED" \in m THEN "unsigned"
  ELSE IF "HAVE_CXX11_ATOMICS" \in m THEN "atomic"
  ELSE IF e.cc.win32 THEN "long" ELSE "unsigned"

\* What is declared only for a threaded build: the threads of thread/threads.h,
\* the appender of asyncappender.h with its queue's thread, and of SocketAppender
\* the members that reconnect it.
ThreadClasses(m) == Def({}, "SINGLE_THREADED" \notin m, {"ThreadImplBase", "AbstractThread"})
AsyncAppender(m) == Def({}, "SINGLE_THREADED" \notin m, {"AsyncAppender::queue_thread", "AsyncAppender::queue"})
ConnectorThread(m) ==
  Def({}, "SINGLE_THREADED" \notin m, {"SocketAppender::ConnectorThread", "SocketAppender::connected", "SocketAppender::connector"})

\* nteventlogappender.h, the one public header that brings in windows.h, for the
\* class it declares where there is an event log.
NTEventLogIncludes(m, e) == IF "HAVE_NT_EVENT_LOG" \in m THEN windowsh_inc(m, e) ELSE {}

\* tchar.h: the character of the library's strings, and of LOG4CPLUS_TEXT.
tchar(m) == IF "UNICODE" \in m THEN "wchar_t" ELSE "char"

\* tstring.h: a string of characters of type t, converted or as it is.
tostring(t) == "char"
towstring(t) == "wchar_t"
TSTRING_TO_STRING(m, t) == IF "UNICODE" \in m THEN tostring(t) ELSE t
STRING_TO_TSTRING(m, t) == IF "UNICODE" \in m THEN towstring(t) ELSE t

\* fstreams.h: the file name a stream is opened with.
FSTREAM_PREFERED_FILE_NAME(m, t) ==
  IF {"FSTREAM_ACCEPTS_WCHAR_T", "UNICODE"} \subseteq m THEN t ELSE TSTRING_TO_STRING(m, t)

-----------------------------------------------------------------------------

\* Where no #error stops it, the library has exactly one threading backend, a
\* SharedMutex whose functions are those of its members, and the headers its
\* types come from, windows.h without its macros min and max.
LibraryIsCoherent(m, e) ==
  /\ \E b \in {"USE_PTHREADS", "USE_WIN32_THREADS", "SINGLE_THREADED"} : os_id_type(m) = {b}
  /\ "SINGLE_THREADED" \notin m => SharedMutexFunctions(m) = SharedMutexMembers(m)
  /\ tls_key_type(m) \in TlsIncludes(m, e)
  /\ "SINGLE_THREADED" \notin m => tls_key_type(m) \in SyncprimsIncludes(m, e)
  /\ "windows.h" \in TlsIncludes(m, e) => "NOMINMAX" \in SyncprimsIncludes(m, e)

\* In each compilation the function's name is asked for in a way the compiler
\* knows, strings cross the border to char and back, a file is opened by a name
\* the compiler's streams take, and formats are checked only where they are
\* char strings; the appenders with a thread have the class of threads, and the
\* one with a HANDLE has windows.h.
IsCoherent(m, e) ==
  /\ MACRO_FUNCTION(m) = "__FUNCSIG__" => e.cc.msc # 0
  /\ MACRO_FUNCTION(m) = "__PRETTY_FUNCTION__" => e.cc.gnuc # 0
  /\ TSTRING_TO_STRING(m, tchar(m)) = "char" /\ STRING_TO_TSTRING(m, "char") = tchar(m)
  /\ FSTREAM_PREFERED_FILE_NAME(m, tchar(m)) = "wchar_t" => e.cc.msc >= 1400
  /\ "format" \in m => tchar(m) = "char"
  /\ "HAVE_NT_EVENT_LOG" \in m => "windows.h" \in NTEventLogIncludes(m, e)
  /\ AsyncAppender(m) \cup ConnectorThread(m) # {} => "AbstractThread" \in ThreadClasses(m)

\* What the classes of the public headers look like in a compilation.
Interface(m, e) == <<tchar(m), ThreadClasses(m), AsyncAppender(m), ConnectorThread(m), count_type(m, e)>>

\* What a program has to do as the library did: nothing else may matter.
MustMatch(e) ==
  LET single == "SINGLE_THREADED" \in e.options \cup e.configured IN
  <<"UNICODE" \in e.options, single, ~ single /\ (e.cc.msc >= 1700 \/ "HAVE_CXX11_ATOMICS" \in e.configured)>>

=============================================================================
