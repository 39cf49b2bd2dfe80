---------------------------- MODULE MediaPrices ----------------------------
(***************************************************************************)
(* What a media request is quoted, charged and given: the catalogues and   *)
(* prices of app/services/media (images.py, tts.py, video_did.py), the     *)
(* checks of app/api/v1/endpoints/media.py before a charge, and what the   *)
(* task of app/workers/tasks.py then can do under the server's settings.   *)
(* MediaJobs has the life of the job between the two.                      *)
(*                                                                         *)
(* Amounts are millionths of a credit: a thousandth of a dollar is 40000,  *)
(* a millionth of a dollar 40.  The float a charge travels as keeps all    *)
(* its digits.  A text is its surrounding blanks and what strip leaves.    *)
(* A definition named Slip... is the one after it with a plausible         *)
(* mistake; no action uses it.                                             *)
(***************************************************************************)
EXTENDS Integers, FiniteSetsExt

CONSTANTS
    Blanks,     \* numbers of blanks around a text
    Bodies      \* lengths of texts without them

Assumptions == Blanks \subseteq Nat /\ Bodies \subseteq Nat

VARIABLES
    config,     \* the settings, fixed at start-up
    pc,         \* "idle", "refused", "queued", "delivered", "refunded"
    request,    \* what the client asked for
    charged,    \* the reserved credits
    spoken      \* characters that were synthesized

vars == <<config, pc, request, charged, spoken>>

\* The credentials file of Google Cloud may be named and missing; ambient
\* credentials may exist without it; D-ID's key must be of the form user:password.
Settings == [openai : BOOLEAN, google : BOOLEAN, storage : BOOLEAN, ambient : BOOLEAN,
             credentials : {"none", "missing", "valid"}, did : {"none", "malformed", "valid"}]

-----------------------------------------------------------------------------
(* Images.                                                                 *)

OpenAISizes == {"1024x1024", "1024x1536", "1536x1024"}
GoogleSizes == {"1:1", "4:3", "3:4", "16:9", "9:16", "3:2", "2:3"}

\* Thousandths of a dollar for a square and for an oblong image.
OpenAIPrices(square, oblong) == [s \in OpenAISizes |-> IF s = "1024x1024" THEN square ELSE oblong]

Flat(price) == [s \in GoogleSizes |-> price]

\* IMAGE_MODELS: the prices by model, quality and size.
ImagePrices ==
    [m \in {"gpt-image-2", "gpt-image-1.5", "gemini-3.1-flash-image", "gemini-3-pro-image"} |->
        CASE m = "gpt-image-2" -> [low |-> OpenAIPrices(6, 9), medium |-> OpenAIPrices(53, 79),
                                   high |-> OpenAIPrices(211, 316)]
          [] m = "gpt-image-1.5" -> [low |-> OpenAIPrices(9, 13), medium |-> OpenAIPrices(34, 50),
                                     high |-> OpenAIPrices(133, 200)]
          [] m = "gemini-3.1-flash-image" ->
                [q \in {"1K", "2K", "4K"} |->
                    Flat(IF q = "1K" THEN 67 ELSE IF q = "2K" THEN 101 ELSE 151)]
          [] OTHER -> [q \in {"1K", "2K", "4K"} |-> Flat(IF q = "4K" THEN 240 ELSE 134)]]

ImageModels == DOMAIN ImagePrices
Qualities(m) == DOMAIN ImagePrices[m]
Sizes(m) == UNION {DOMAIN ImagePrices[m][q] : q \in Qualities(m)}
ImageProvider(m) == IF m \in {"gpt-image-2", "gpt-image-1.5"} THEN "openai" ELSE "google"

UsdToCredits(mills) == mills * 40000

ValidOptions(r) ==
    /\ r.model \in ImageModels /\ r.quality \in Qualities(r.model)
    /\ r.size \in DOMAIN ImagePrices[r.model][r.quality]

ImageCost(r) == UsdToCredits(ImagePrices[r.model][r.quality][r.size])

\* options: what the picker offers.
OfferedImages == UNION {{m} \X Qualities(m) \X Sizes(m) : m \in ImageModels}

-----------------------------------------------------------------------------
(* Speech and avatars.                                                     *)

\* One voice of each family of VOICES, two well-formed Google names that are not
\* listed, and a name that no pattern matches.
ListedVoices == {"en-US-Neural2-F", "en-US-Chirp3-HD-Aoede", "openai/coral"}
UnlistedVoices == {"de-DE-Neural2-B", "de-DE-Chirp3-HD-Kore"}
Voices == ListedVoices \cup UnlistedVoices \cup {"robot"}

ValidVoice(voice) == voice \in ListedVoices \cup UnlistedVoices
VoiceProvider(voice) == IF voice = "openai/coral" THEN "openai" ELSE "google"

\* The voices with "Chirp3" in their name, listed or not.
Chirp3 == {"en-US-Chirp3-HD-Aoede", "de-DE-Chirp3-HD-Kore"}

\* Millionths of a dollar per character.
CostPerChar(voice) ==
    IF VoiceProvider(voice) = "openai" THEN 17 ELSE IF voice \in Chirp3 THEN 30 ELSE 16

MaxTtsChars == 4096

SlipPromptChars(r) == r.blanks + r.body

\* The characters a request is charged for: a speech request is stripped, a
\* message stripped and cut, an avatar's script taken as it is.
PromptChars(r) ==
    IF r.kind = "avatar" THEN r.blanks + r.body
    ELSE IF r.kind = "read" THEN Min({r.body, MaxTtsChars})
    ELSE r.body

SpeechCost(r) == PromptChars(r) * CostPerChar(r.voice) * 40

\* Fifteen characters a second, at least one block of fifteen seconds.
EstimateDuration(chars) == Max({15, (chars + 14) \div 15})

PricePerBlock == 100

Blocks(chars) == Max({1, (EstimateDuration(chars) + 14) \div 15})

VideoCost(chars) == Blocks(chars) * UsdToCredits(PricePerBlock)

-----------------------------------------------------------------------------
(* A request.                                                              *)

ImageRequests == [kind : {"image"}, model : ImageModels \cup {"dall-e-3"},
                  quality : {"low", "medium", "high", "1K", "2K", "4K"},
                  size : OpenAISizes \cup GoogleSizes]
\* The schemas bound what is sent, not a stored message.
SpokenRequests ==
    {r \in [kind : {"speech", "avatar", "read"}, voice : Voices, blanks : Blanks, body : Bodies] :
        r.kind # "read" => r.blanks + r.body \in 1..MaxTtsChars}
NoRequest == [kind |-> "none"]

TypeOK ==
    /\ config \in Settings
    /\ pc \in {"idle", "refused", "queued", "delivered", "refunded"}
    /\ request \in ImageRequests \cup SpokenRequests \cup {NoRequest}
    /\ charged \in Nat /\ spoken \in 0..MaxTtsChars
    /\ pc \in {"queued", "delivered"} <=> charged > 0

Init == config \in Settings /\ pc = "idle" /\ request = NoRequest /\ charged = 0 /\ spoken = 0

Accepted(r) ==
    /\ config.storage
    /\ IF r.kind = "image" THEN ValidOptions(r)
       ELSE ValidVoice(r.voice) /\ (r.kind = "avatar" \/ r.body > 0)

Cost(r) ==
    CASE r.kind = "image" -> ImageCost(r)
      [] r.kind = "avatar" -> VideoCost(r.blanks + r.body) + SpeechCost(r)
      [] OTHER -> SpeechCost(r)

Charge(r) ==
    /\ Accepted(r)
    /\ pc' = "queued" /\ request' = r /\ charged' = Cost(r)
    /\ UNCHANGED <<config, spoken>>

Refuse(r) ==
    /\ ~Accepted(r)
    /\ pc' = "refused" /\ request' = r
    /\ UNCHANGED <<config, charged, spoken>>

\* The clients of the providers, made when a task needs them.
CanSpeak(voice) ==
    IF VoiceProvider(voice) = "openai" THEN config.openai
    ELSE config.credentials = "valid" \/ config.ambient

Configured(r) ==
    CASE r.kind = "image" -> config[ImageProvider(r.model)]
      [] r.kind = "avatar" -> CanSpeak(r.voice) /\ config.did = "valid"
      [] OTHER -> CanSpeak(r.voice)

\* The task; generate_audio cuts the text once more.
Deliver ==
    /\ pc = "queued" /\ Configured(request)
    /\ pc' = "delivered"
    /\ spoken' = IF request.kind = "image" THEN 0 ELSE Min({PromptChars(request), MaxTtsChars})
    /\ UNCHANGED <<config, request, charged>>

\* Not configured, or the provider fails.
Refund ==
    /\ pc = "queued"
    /\ pc' = "refunded" /\ charged' = 0
    /\ UNCHANGED <<config, request, spoken>>

Again ==
    /\ pc \in {"refused", "delivered", "refunded"}
    /\ pc' = "idle" /\ request' = NoRequest /\ charged' = 0 /\ spoken' = 0
    /\ UNCHANGED config

Next ==
    \/ pc = "idle" /\ \E r \in ImageRequests \cup SpokenRequests : Charge(r) \/ Refuse(r)
    \/ Deliver \/ Refund \/ Again

Spec == Init /\ [][Next]_vars

-----------------------------------------------------------------------------
(* What the client is shown.                                               *)

SlipEnabled(r) ==
    config.storage /\ config[IF r.kind = "image" THEN ImageProvider(r.model)
                              ELSE IF r.kind = "avatar" THEN "storage" ELSE VoiceProvider(r.voice)]

\* public_features and the "enabled" of voices and image models.
Enabled(r) ==
    /\ config.storage
    /\ CASE r.kind = "image" -> config[ImageProvider(r.model)]
         [] r.kind = "avatar" -> config.did # "none"
         [] OTHER -> IF VoiceProvider(r.voice) = "openai" THEN config.openai
                     ELSE config.credentials # "none"

Offered(r) ==
    IF r.kind = "image" THEN <<r.model, r.quality, r.size>> \in OfferedImages
    ELSE r.voice \in ListedVoices

\* The button of a request: an avatar also needs a voice that is enabled.
IsShown(r) == Enabled(r) /\ (r.kind = "avatar" => Enabled([r EXCEPT !.kind = "speech"]))

(* Properties.                                                             *)

\* "Keeps the picker in the UI from offering a combination the API would reject"
\* (images.py:243), and what it does not offer is not charged.
OfferedIsAccepted ==
    request.kind = "image" =>
        /\ pc = "refused" /\ config.storage => ~Offered(request)
        /\ charged > 0 => Offered(request)

\* What a voice costs as documented: a listed one by the list (VOICES of tts.py),
\* any other Google voice "at the Neural2 rate" (tts.py:177-178).
DocumentedRate(voice) ==
    CASE voice = "openai/coral" -> 17
      [] voice = "en-US-Chirp3-HD-Aoede" -> 30
      [] OTHER -> 16

Spoken == pc = "delivered" /\ request.kind \in {"speech", "read", "avatar"}

SpokenAt(rate) ==
    spoken * rate * 40 + IF request.kind = "avatar" THEN VideoCost(spoken) ELSE 0

\* "An unpriced request used to fall back to an arbitrary rate, which meant
\* billing one thing and generating another" (images.py:221): of a text, what is
\* charged is what is spoken, whatever is stripped or cut on the way, at its
\* voice's documented rate; an unlisted Chirp3 voice has the rate of the listed
\* ones instead (UnlistedAtNeural2 is the promise that breaks).
SpokenIsCharged ==
    Spoken => charged = IF request.voice \in Chirp3 \ ListedVoices
                        THEN SpokenAt(DocumentedRate("en-US-Chirp3-HD-Aoede"))
                        ELSE SpokenAt(DocumentedRate(request.voice))

\* "So long scripts are not charged as short ones" (video_did.py:58): the blocks
\* charged cover the script at fifteen characters a second.
ScriptIsCovered ==
    pc = "delivered" /\ request.kind = "avatar" =>
        ((charged - SpeechCost(request)) \div UsdToCredits(PricePerBlock)) * 225
            >= request.blanks + request.body

\* What is charged is what was offered, spoken or rendered, for every option and
\* at every edge of every block and cut (ImageCost, PromptChars, VideoCost).
ChargedIsDelivered == OfferedIsAccepted /\ SpokenIsCharged /\ ScriptIsCovered

\* Google's credentials are looked for elsewhere than where the flag looks: a file
\* that is named and missing, or the ambient ones without a file; and the flag of
\* avatars does not look at the form of D-ID's key.
HalfConfigured(r) ==
    \/ /\ r.kind # "image" /\ VoiceProvider(r.voice) = "google"
       /\ IF config.ambient THEN config.credentials = "none" ELSE config.credentials = "missing"
    \/ r.kind = "avatar" /\ config.did = "malformed"

\* A request that was offered and charged can be done exactly when its button is
\* shown as enabled, under every combination of settings but the half-configured
\* ones (public_features and voices against the clients of tts.py, images.py and
\* video_did.py).
ShownIsAble ==
    pc = "queued" /\ Offered(request) /\ ~HalfConfigured(request) =>
        (IsShown(request) <=> Configured(request))

\* "The UI hides what is not configured" (README.md:135): what is shown as enabled
\* can be done.
EnabledCanWork == pc = "queued" /\ Offered(request) /\ IsShown(request) => Configured(request)

\* "Any well-formed Google voice name is accepted, priced at the Neural2 rate"
\* (tts.py:177-178).
UnlistedAtNeural2 == Spoken => charged = SpokenAt(DocumentedRate(request.voice))

\* "A missing key disables that one feature" (README.md:133): nothing is charged
\* that the server cannot do.
MissingKeyDisables == pc = "queued" => Configured(request)

\* "Every voice the speech endpoints accept" (media.py:80) is listed.
AcceptedIsListed == charged > 0 /\ request.kind # "image" => Offered(request)
=============================================================================
